---- MODULE Spec2Model ----
(***************************************************************************)
(* A model of the RustDDS participant core: the keyed DataReader           *)
(* (dds/with_key/datareader.rs) on top of the shared DDSCache, and the     *)
(* DomainParticipant construction / shutdown sequence (dds/participant.rs).*)
(***************************************************************************)
EXTENDS Integers, Sequences, FiniteSets, TLC

\* ------------------------------------------------------------------ bounds
\* Number of CacheChanges inserted into the topic cache in one behaviour.
MaxChanges == 2
\* Instance keys are 1..MaxKey (the key type is totally ordered, Ord).
MaxKey == 2
\* Capacity of the DataReader's notification channel (a bounded sync_channel).
NotifCap == 2
\* Strong DomainParticipant handles alive at once (the first and its clones).
MaxHandles == 2
\* DomainParticipantWeak handles alive at once.
MaxWeaks == 2
\* Distinct changes inserted into the participant's DDSCache objects.
MaxDpChanges == 2
\* Capacity of the discovery command channel, sync_channel::<DiscoveryCommand>(10).
DiscoveryCommandCap == 10

Keys == 1..MaxKey

VARIABLES
  clock,            \* the monotonic clock behind Instant::now()
  topic_cache,      \* DDSCache, the reader's topic: changes ordered by instant
  dr_birth,         \* the instant DataReader::new ran at (0: not yet)
  latest_instant,   \* DataReader.latest_instant
  datasamples,      \* DataReader.datasample_cache.datasamples : key -> Vec<DataSample>
  notif,            \* messages pending in DataReader.notification_receiver
  last,             \* the last DataReader call and what it returned
  ingested,         \* instant -> number of DataSamples built from that change
  rd_pc,            \* RTPS reader thread: between add_change and the notification
  co_pc,            \* consumer thread: position inside take_as_obj
  error_bin,        \* whether File::create("error_bin.bin") succeeds in the working directory
  dr_panicked,      \* a DataReader call has panicked
  new_pc,           \* DomainParticipant::new: where the constructing thread is
  new_result,       \* what DomainParticipant::new returned ("none": not yet)
  strong,           \* strong count of Arc<Mutex<DomainParticipant_Disc>>
  ev,               \* the event-loop thread
  stop_signals,     \* messages sent on stop_poll_sender
  disc,             \* the discovery thread
  reported,         \* what discovery sent on the discovery-started channel
  started_chan,     \* the discovery-started channel: messages, sender alive
  cmd_chan,         \* the discovery command channel: messages, receiver alive
  join_chan,        \* discovery_join_handle: JoinHandles waiting in it
  drop_pc,          \* where the thread dropping the last handle is
  stop_disc_ok,     \* STOP_DISCOVERY was sent successfully
  caches,           \* the DDSCache objects: handles and contents
  lk_th,            \* user threads calling into the participant: op, pc, locks held
  lk_outer,         \* owner of Mutex<DomainParticipant_Disc> (0: free)
  lk_inner,         \* owner of Mutex<DomainParticipant_Inner> (0: free)
  lk_chan,          \* messages queued in the bounded channels
  lk_prog,          \* per thread: the lock steps its participant call has still to take
  weak_last,        \* the last call through a DomainParticipantWeak / Subscriber
  weak_handles,     \* DomainParticipantWeak values alive
  upgrades,         \* strong Arcs held by operations on a weak handle, between upgrade and return
  dd_call,          \* the last DDSData constructor call and its arguments
  dd,               \* the DDSData it returned
  dd_prev_call,     \* the DDSData constructor call before it
  dd_prev,          \* the DDSData that one returned
  in_pc,            \* DomainParticipant_Inner::new: position of the constructing thread
  participant_id,   \* its local participant_id
  spdp_taken,       \* participant ids whose SPDP unicast port is in use
  listeners,        \* its local map `listeners`: the tokens inserted
  in_env,           \* what the socket and thread operations of the call returned
  in_result,        \* what DomainParticipant_Inner::new returned ("none": not yet)
  readers,          \* DataReaders by GUID: "none", "alive", "dropped"
  rm_log,           \* per GUID, the outcomes of REMOVE_LOCAL_READER sends
  inst_call,        \* the last read_instance / take_instance call: arguments, key inferred
  next_sample,      \* the Option the last read_next_sample / take_next_sample returned
  pt_call,          \* the ports DomainParticipant_Inner::new derived, and from which ids
  wire_call,        \* an into_cdr_bytes / from_cdr_bytes pair: value, octets, result
  new_guid,         \* DomainParticipant_Inner::new: the GUID it generated (0: none yet)
  my_guid,          \* DomainParticipant_Inner.my_guid
  domain_info,      \* DomainInfo.domain_participant_guid given to DPEventLoop::new
  guid_strong,      \* DomainParticipant handles alive, clones of one Arc
  weaks,            \* the DomainParticipantWeak handles: the GUID each caches
  guid_last,        \* the last get_guid call: on what, and the GUID returned
  matched_writers,  \* RTPS Reader: writer GUIDs with a WriterProxy
  highest_sn_received, \* RTPS Reader, per writer: highest sequence number accepted
  missing_samples,  \* RTPS Reader, per writer: sequence numbers known to be missing
  rx_log,           \* (writer, sequence number) of the changes in topic_cache, in order
  rx_last,          \* the last DATA the Reader handled: what it saw and what it did
  highest_assigned, \* RTPS Writer: the last sequence number it assigned
  unacked_changes,  \* RTPS Writer, for its reliable reader: not yet acknowledged
  send_list,        \* RTPS Writer: DATA scheduled to be sent or sent again
  highest_acked_sn, \* RTPS Writer: base - 1 of the last ACKNACK it took
  data_net,         \* DATA datagrams of the writer in flight
  hb_net,           \* the HEARTBEAT datagram in flight, or None
  acknack_due,      \* RTPS Reader: an ACKNACK response is scheduled
  an_net            \* the ACKNACK datagram in flight, or None

dr_vars == <<clock, topic_cache, dr_birth, latest_instant, datasamples,
             notif, last, ingested, rd_pc, co_pc, error_bin, dr_panicked>>

dp_vars == <<new_pc, new_result, strong, ev, stop_signals, disc, reported,
             started_chan, cmd_chan, join_chan, drop_pc, stop_disc_ok, caches>>

lk_vars == <<lk_th, lk_outer, lk_inner, lk_chan, lk_prog>>

api_vars == <<weak_last, weak_handles, upgrades>>

dd_vars == <<dd_call, dd, dd_prev_call, dd_prev>>

in_vars == <<in_pc, participant_id, spdp_taken, listeners, in_env, in_result>>

rdr_vars == <<readers, rm_log>>

inst_vars == <<inst_call, next_sample>>

port_vars == <<pt_call>>

wire_vars == <<wire_call>>

guid_vars == <<new_guid, my_guid, domain_info, guid_strong, weaks, guid_last>>

rr_vars == <<matched_writers, highest_sn_received, missing_samples, rx_log, rx_last>>

rw_vars == <<highest_assigned, unacked_changes, send_list, highest_acked_sn,
             data_net, hb_net, acknack_due, an_net>>

ext2_vars == <<inst_vars, port_vars, wire_vars, guid_vars, rr_vars, rw_vars>>

ext_vars == <<lk_vars, api_vars, dd_vars, in_vars, rdr_vars, ext2_vars>>

vars == <<dr_vars, dp_vars, ext_vars>>

\* ------------------------------------------------------------ data types
\* ReadCondition: three masks (readcondition.rs); any() and not_read() are the
\* two constructors the DataReader and its tests use.
SampleStates == {"NotRead", "Read"}
ViewStates == {"New", "NotNew"}
InstanceStates == {"Alive", "NotAlive_Disposed", "NotAlive_NoWriters"}

ReadCondition_any ==
  [sample_state_mask |-> SampleStates, view_state_mask |-> ViewStates,
   instance_state_mask |-> InstanceStates]

ReadCondition_not_read ==
  [sample_state_mask |-> {"NotRead"}, view_state_mask |-> ViewStates,
   instance_state_mask |-> InstanceStates]

ReadConditions == {ReadCondition_any, ReadCondition_not_read}

\* The (kind, payload) forms a CacheChange takes in the cache.  payload "ok" is a
\* known representation id with bytes DA::from_bytes decodes.
ChangeShapes ==
  { [kind |-> "ALIVE", payload |-> "ok"],
    [kind |-> "ALIVE", payload |-> "unknown_rep"],
    [kind |-> "ALIVE", payload |-> "bad_bytes"],
    [kind |-> "NOT_ALIVE_DISPOSED", payload |-> "none"],
    [kind |-> "NOT_ALIVE_UNREGISTERED", payload |-> "none"] }

\* GUID prefixes: the DataReader's own participant, and a remote one.
Prefixes == {"own", "remote"}

\* A DataReader call as the caller sees it: the operation, its arguments, the
\* returned list, and how many cache changes its fetch found new.
NoCall ==
  [op |-> "none", max |-> 0, cond |-> ReadCondition_any, result |-> <<>>,
   fetched |-> 0]

\* --------------------------------------------------------------- helpers
Min(a, b) == IF a <= b THEN a ELSE b

\* DataSampleCache::add_datasample under History::KeepAll (the tests' QoS): the
\* sample is pushed at the back of its instance's vector; a new instance gets a
\* new map entry.
add_datasample(ds, sample) ==
  IF sample.key \in DOMAIN ds
    THEN [ds EXCEPT ![sample.key] = Append(@, sample)]
    ELSE [k \in (DOMAIN ds) \cup {sample.key} |->
            IF k = sample.key THEN <<sample>> ELSE ds[k]]

\* DataSampleCache::get_key: the key of a key hash, known once a sample of that
\* instance was added.
get_key(ds, key_hash) == IF key_hash \in DOMAIN ds THEN {key_hash} ELSE {}

change_kind_to_instance_state(c_k) ==
  CASE c_k = "ALIVE" -> "Alive"
    [] c_k = "NOT_ALIVE_DISPOSED" -> "NotAlive_Disposed"
    [] c_k = "NOT_ALIVE_UNREGISTERED" -> "NotAlive_NoWriters"

\* DataSample::new / DataSample::new_disposed as the DataReader calls them.
DataSample_new(cc) ==
  [key |-> cc.key, src |-> cc.instant, has_value |-> TRUE,
   sample_state |-> "NotRead", view_state |-> "New",
   instance_state |-> change_kind_to_instance_state(cc.kind)]

DataSample_new_disposed(cc, key) ==
  [key |-> key, src |-> cc.instant, has_value |-> FALSE,
   sample_state |-> "NotRead", view_state |-> "New",
   instance_state |-> "NotAlive_Disposed"]

matches_conditions(rcondition, dsample) ==
  /\ dsample.sample_state \in rcondition.sample_state_mask
  /\ dsample.view_state \in rcondition.view_state_mask
  /\ dsample.instance_state \in rcondition.instance_state_mask

\* DDSCache::from_topic_get_changes_in_range(topic, from, to): the changes with
\* from < instant <= to, in instant order.
from_topic_get_changes_in_range(cache, from, to) ==
  SelectSeq(cache, LAMBDA cc : from < cc.instant /\ cc.instant <= to)


\* ------------------------------------------- DataReader: fetch from DDSCache
\* The filtered, instant-sorted list of get_datasamples_from_cache: the changes
\* in (latest_instant, now] whose writer is not of the DataReader's participant.
\* A list that keeps the changes of the DataReader's own participant.
new_cache_changes_unfiltered(cache, latest, now) ==
  from_topic_get_changes_in_range(cache, latest, now)

\* A list with the latest change first.
new_cache_changes_latest_first(cache, latest, now) ==
  LET l == SelectSeq(from_topic_get_changes_in_range(cache, latest, now),
                     LAMBDA cc : cc.prefix # "own")
  IN [i \in 1..Len(l) |-> l[Len(l) + 1 - i]]

new_cache_changes(cache, latest, now) ==
  SelectSeq(from_topic_get_changes_in_range(cache, latest, now),
            LAMBDA cc : cc.prefix # "own")

\* The body of the `for (_instant, cc) in cache_changes` loop for one change:
\* the datasample map after it, whether a DataSample was built from cc, and
\* whether the body panicked.  Bytes that DA::from_bytes rejects are written to
\* error_bin.bin with File::create(..).unwrap().write_all(..).unwrap().
ingest_change(ds, cc) ==
  IF cc.payload = "none"
    THEN IF cc.kind = "NOT_ALIVE_DISPOSED" /\ get_key(ds, cc.key) # {}
           THEN [ds |-> add_datasample(ds, DataSample_new_disposed(cc, cc.key)),
                 built |-> TRUE, panicked |-> FALSE]
           ELSE [ds |-> ds, built |-> FALSE, panicked |-> FALSE]
    ELSE IF cc.payload = "unknown_rep"
           THEN [ds |-> ds, built |-> FALSE, panicked |-> FALSE]
           ELSE IF cc.payload = "bad_bytes"
                  THEN [ds |-> ds, built |-> FALSE, panicked |-> error_bin = "refused"]
                  ELSE [ds |-> add_datasample(ds, DataSample_new(cc)), built |-> TRUE,
                        panicked |-> FALSE]

RECURSIVE ingest_changes(_, _, _)
ingest_changes(ds, count, changes) ==
  IF changes = <<>>
    THEN [ds |-> ds, count |-> count, panicked |-> FALSE]
    ELSE LET r == ingest_change(ds, Head(changes))
             c == Head(changes).instant
         IN IF r.panicked
              THEN [ds |-> r.ds, count |-> count, panicked |-> TRUE]
              ELSE ingest_changes(r.ds,
                                  IF r.built THEN [count EXCEPT ![c] = @ + 1] ELSE count,
                                  Tail(changes))

\* get_datasamples_from_cache: latest_instant moves to the last fetched change
\* (or stays, when nothing new was fetched), every fetched change is ingested.
\* A fetch that forgets to move latest_instant.
get_datasamples_from_cache_stale(cache, latest, now, ds, count) ==
  LET cache_changes == new_cache_changes(cache, latest, now)
      r == ingest_changes(ds, count, cache_changes)
  IN [latest |-> latest, ds |-> r.ds, count |-> r.count,
      fetched |-> Len(cache_changes), panicked |-> r.panicked]

get_datasamples_from_cache(cache, latest, now, ds, count) ==
  LET cache_changes == new_cache_changes(cache, latest, now)
  IN IF cache_changes = <<>>
       THEN [latest |-> latest, ds |-> ds, count |-> count, fetched |-> 0,
             panicked |-> FALSE]
       ELSE LET r == ingest_changes(ds, count, cache_changes)
            IN [latest |-> cache_changes[Len(cache_changes)].instant,
                ds |-> r.ds, count |-> r.count,
                fetched |-> Len(cache_changes), panicked |-> r.panicked]

\* ------------------------------------------------ DataReader: read and take
\* The iteration order of datasample_cache.datasamples.iter_mut(): instances in
\* key order, each instance's vector front to back.
\* An iteration that visits the instances from the largest key down.
RECURSIVE iter_order_descending(_, _)
iter_order_descending(ds, k) ==
  IF k > MaxKey THEN <<>>
  ELSE iter_order_descending(ds, k + 1)
       \o (IF k \in DOMAIN ds
             THEN [i \in 1..Len(ds[k]) |-> [key |-> k, pos |-> i]]
             ELSE <<>>)

RECURSIVE iter_order(_, _)
iter_order(ds, k) ==
  IF k > MaxKey THEN <<>>
  ELSE (IF k \in DOMAIN ds
          THEN [i \in 1..Len(ds[k]) |-> [key |-> k, pos |-> i]]
          ELSE <<>>) \o iter_order(ds, k + 1)

\* The 'outer loop of read_as_obj / take_as_obj from element i of the iteration
\* on, with n samples already in `result`: the places whose sample is pushed.
\* The length test follows every visited element, matching or not.
RECURSIVE scan_loop(_, _, _, _, _, _)
scan_loop(ds, order, i, n, max_samples, read_condition) ==
  IF i > Len(order) THEN <<>>
  ELSE LET hit == matches_conditions(read_condition, ds[order[i].key][order[i].pos])
           n2 == IF hit THEN n + 1 ELSE n
       IN (IF hit THEN <<order[i]>> ELSE <<>>)
          \o (IF n2 >= max_samples THEN <<>>
              ELSE scan_loop(ds, order, i + 1, n2, max_samples, read_condition))

InSeq(x, s) == \E i \in 1..Len(s) : s[i] = x

\* A vector without the elements at the given places (Vec::remove, shifting left).
RECURSIVE remove_places(_, _, _, _)
remove_places(vec, k, picked, i) ==
  IF i > Len(vec) THEN <<>>
  ELSE (IF InSeq([key |-> k, pos |-> i], picked) THEN <<>> ELSE <<vec[i]>>)
       \o remove_places(vec, k, picked, i + 1)

\* A read that removes what it returns, as take does.
read_loop_removing(ds, max_samples, read_condition) ==
  LET picked == scan_loop(ds, iter_order(ds, 1), 1, 0, max_samples, read_condition)
  IN [result |-> [i \in 1..Len(picked) |->
                    [ds[picked[i].key][picked[i].pos] EXCEPT !.sample_state = "Read"]],
      ds |-> [k \in DOMAIN ds |-> remove_places(ds[k], k, picked, 1)]]

\* A take that stops after the first instance that gave it a sample.
take_loop_first_instance(ds, max_samples, read_condition) ==
  LET all == scan_loop(ds, iter_order(ds, 1), 1, 0, max_samples, read_condition)
      picked == SelectSeq(all, LAMBDA p : p.key = all[1].key)
  IN [result |-> [i \in 1..Len(picked) |->
                    [ds[picked[i].key][picked[i].pos] EXCEPT !.sample_state = "Read"]],
      ds |-> [k \in DOMAIN ds |-> remove_places(ds[k], k, picked, 1)]]

\* A read that returns the samples marked Read and leaves the stored ones as
\* they were.
read_loop_unmarked(ds, max_samples, read_condition) ==
  LET picked == scan_loop(ds, iter_order(ds, 1), 1, 0, max_samples, read_condition)
  IN [result |-> [i \in 1..Len(picked) |->
                    [ds[picked[i].key][picked[i].pos] EXCEPT !.sample_state = "Read"]],
      ds |-> ds]

\* read_as_obj after the fetch: the result and the datasample map.  Returned
\* samples are marked Read in place and stay in the map.
read_loop(ds, max_samples, read_condition) ==
  LET picked == scan_loop(ds, iter_order(ds, 1), 1, 0, max_samples, read_condition)
  IN [result |-> [i \in 1..Len(picked) |->
                    [ds[picked[i].key][picked[i].pos] EXCEPT !.sample_state = "Read"]],
      ds |-> [k \in DOMAIN ds |->
                [i \in 1..Len(ds[k]) |->
                   IF InSeq([key |-> k, pos |-> i], picked)
                     THEN [ds[k][i] EXCEPT !.sample_state = "Read"]
                     ELSE ds[k][i]]]]

\* A take that removes every sample matching the read condition and returns
\* the first max_samples of them.
take_loop_draining(ds, max_samples, read_condition) ==
  LET picked == scan_loop(ds, iter_order(ds, 1), 1, 0, max_samples, read_condition)
      matching == scan_loop(ds, iter_order(ds, 1), 1, 0, MaxChanges + 1, read_condition)
  IN [result |-> [i \in 1..Len(picked) |->
                    [ds[picked[i].key][picked[i].pos] EXCEPT !.sample_state = "Read"]],
      ds |-> [k \in DOMAIN ds |-> remove_places(ds[k], k, matching, 1)]]

\* take_as_obj after the fetch: returned samples are removed from their vector
\* (the map entry of the instance stays, possibly empty) and marked Read.
take_loop(ds, max_samples, read_condition) ==
  LET picked == scan_loop(ds, iter_order(ds, 1), 1, 0, max_samples, read_condition)
  IN [result |-> [i \in 1..Len(picked) |->
                    [ds[picked[i].key][picked[i].pos] EXCEPT !.sample_state = "Read"]],
      ds |-> [k \in DOMAIN ds |-> remove_places(ds[k], k, picked, 1)]]


\* ------------------------------------------------------- DataReader: state
\* The largest instant the clock can show: one tick per inserted change and one
\* for DataReader::new.
MaxClock == MaxChanges + 1

\* max_samples as callers pass it: 0, 1, and a value no smaller than the number
\* of samples held (the tests pass 100).
MaxSamplesChoices == {0, 1, MaxChanges}

\* The DATA messages the RTPS reader is given.  The DataReader reads the key of a
\* change only when it builds a sample from it (a decodable payload, or a
\* dispose), so the changes it skips are taken with key 1 alone.
DataInputs ==
  { [key |-> k, shape |-> sh] : k \in Keys, sh \in ChangeShapes } \
  { d \in [key : Keys, shape : ChangeShapes] :
      d.key # 1 /\ ~(d.shape.payload = "ok" \/ d.shape.kind = "NOT_ALIVE_DISPOSED") }

CacheChange(instant, prefix, key, shape) ==
  [instant |-> instant, prefix |-> prefix, key |-> key,
   kind |-> shape.kind, payload |-> shape.payload]

\* mio_channel::SyncSender::try_send on the notification channel: a full
\* channel drops the notification.
try_send_notification(n) == IF n < NotifCap THEN n + 1 ELSE n

dr_created == dr_birth > 0

DrInit ==
  /\ clock = 0
  /\ topic_cache = <<>>
  /\ dr_birth = 0
  /\ latest_instant = 0
  /\ datasamples = <<>>
  /\ notif = 0
  /\ last = NoCall
  /\ ingested = [i \in 1..MaxClock |-> 0]
  /\ rd_pc = "idle"
  /\ co_pc = "idle"
  /\ error_bin = "creatable"
  /\ dr_panicked = FALSE

\* DataReader::new: an empty datasample cache, latest_instant = Instant::now().
DataReader_new ==
  /\ ~dr_created
  /\ clock' = clock + 1
  /\ latest_instant' = clock + 1
  /\ datasamples' = <<>>
  /\ dr_birth' = clock + 1
  /\ UNCHANGED <<topic_cache, notif, last, ingested, error_bin, dr_panicked, rd_pc, co_pc>>
  /\ UNCHANGED dp_vars
  /\ UNCHANGED ext_vars

\* DDSCache::add_change with instant = Instant::now(), taken under the cache's
\* write lock: instants are strictly increasing within the topic.
add_change(prefix, key, shape) ==
  /\ Len(topic_cache) < MaxChanges
  /\ clock' = clock + 1
  /\ topic_cache' = Append(topic_cache, CacheChange(clock + 1, prefix, key, shape))

\* The RTPS reader accepts a DATA of a matched remote writer: the change goes
\* into the cache, then the DataReader is notified.
handle_data_msg(key, shape) ==
  /\ add_change("remote", key, shape)
  /\ notif' = try_send_notification(notif)
  /\ last' = [NoCall EXCEPT !.op = "insert"]
  /\ UNCHANGED <<dr_birth, latest_instant, datasamples, ingested, error_bin, dr_panicked, rd_pc, co_pc>>
  /\ UNCHANGED dp_vars
  /\ UNCHANGED ext_vars

\* A DataWriter of the same participant writes to the topic: the change goes
\* into the same cache, with the participant's own GUID prefix.
local_write(key) ==
  /\ add_change("own", key, [kind |-> "ALIVE", payload |-> "ok"])
  /\ last' = [NoCall EXCEPT !.op = "insert"]
  /\ UNCHANGED <<dr_birth, latest_instant, datasamples, notif, ingested, error_bin, dr_panicked, rd_pc, co_pc>>
  /\ UNCHANGED dp_vars
  /\ UNCHANGED ext_vars

\* DataReader::read_as_obj(max_samples, read_condition).
read_as_obj(max_samples, read_condition) ==
  /\ dr_created
  /\ ~dr_panicked
  /\ LET f == get_datasamples_from_cache(topic_cache, latest_instant, clock,
                                         datasamples, ingested)
         r == IF f.panicked
                THEN [result |-> <<>>, ds |-> f.ds]
                ELSE read_loop(f.ds, max_samples, read_condition)
     IN /\ latest_instant' = f.latest
        /\ ingested' = f.count
        /\ datasamples' = r.ds
        /\ dr_panicked' = f.panicked
        /\ last' = [op |-> IF f.panicked THEN "panic" ELSE "read",
                    max |-> max_samples, cond |-> read_condition,
                    result |-> r.result,
                    fetched |-> f.fetched]
        /\ notif' = IF f.panicked THEN notif ELSE 0
  /\ UNCHANGED error_bin
  /\ UNCHANGED <<clock, topic_cache, dr_birth, rd_pc, co_pc>>
  /\ UNCHANGED dp_vars
  /\ UNCHANGED ext_vars

\* DataReader::take_as_obj(max_samples, read_condition).
take_as_obj(max_samples, read_condition) ==
  /\ dr_created
  /\ ~dr_panicked
  /\ LET f == get_datasamples_from_cache(topic_cache, latest_instant, clock,
                                         datasamples, ingested)
         r == IF f.panicked
                THEN [result |-> <<>>, ds |-> f.ds]
                ELSE take_loop(f.ds, max_samples, read_condition)
     IN /\ latest_instant' = f.latest
        /\ ingested' = f.count
        /\ datasamples' = r.ds
        /\ dr_panicked' = f.panicked
        /\ last' = [op |-> IF f.panicked THEN "panic" ELSE "take",
                    max |-> max_samples, cond |-> read_condition,
                    result |-> r.result,
                    fetched |-> f.fetched]
        /\ notif' = IF f.panicked THEN notif ELSE 0
  /\ UNCHANGED error_bin
  /\ UNCHANGED <<clock, topic_cache, dr_birth, rd_pc, co_pc>>
  /\ UNCHANGED dp_vars
  /\ UNCHANGED ext_vars

DrNext ==
  \/ DataReader_new
  \/ \E d \in DataInputs : handle_data_msg(d.key, d.shape)
  \/ local_write(1)
  \/ \E m \in MaxSamplesChoices, c \in ReadConditions : read_as_obj(m, c)
  \/ \E m \in MaxSamplesChoices, c \in ReadConditions : take_as_obj(m, c)

\* ------------------------------------ DataReader: the notification protocol
\* The RTPS reader thread and a consumer thread, step by step.  The reader
\* inserts the change (under the cache's write lock), then try_sends the
\* notification.  The consumer calls take(any) only when the notification
\* channel is readable; take_as_obj fetches (under the read lock) and collects,
\* then empties the channel one try_recv at a time.

\* Reader::handle_data_msg, first half: the change is in the cache.
reader_add_change(key, shape) ==
  /\ rd_pc = "idle"
  /\ add_change("remote", key, shape)
  /\ rd_pc' = "notify"
  /\ UNCHANGED <<dr_birth, latest_instant, datasamples, notif, last, ingested, error_bin, dr_panicked, co_pc>>
  /\ UNCHANGED dp_vars
  /\ UNCHANGED ext_vars

\* Reader::handle_data_msg, second half: the notification is sent.
reader_send_notification ==
  /\ rd_pc = "notify"
  /\ notif' = try_send_notification(notif)
  /\ rd_pc' = "idle"
  /\ UNCHANGED <<clock, topic_cache, dr_birth, latest_instant, datasamples, last,
                 ingested, error_bin, dr_panicked, co_pc>>
  /\ UNCHANGED dp_vars
  /\ UNCHANGED ext_vars

\* take_as_obj up to the end of its 'outer loop, entered on a readable channel.
take_fetch_and_collect(max_samples, read_condition) ==
  /\ dr_created
  /\ ~dr_panicked
  /\ co_pc = "idle"
  /\ notif > 0
  /\ LET f == get_datasamples_from_cache(topic_cache, latest_instant, clock,
                                         datasamples, ingested)
         r == IF f.panicked
                THEN [result |-> <<>>, ds |-> f.ds]
                ELSE take_loop(f.ds, max_samples, read_condition)
     IN /\ latest_instant' = f.latest
        /\ ingested' = f.count
        /\ datasamples' = r.ds
        /\ dr_panicked' = f.panicked
        /\ last' = [op |-> IF f.panicked THEN "panic" ELSE "take",
                    max |-> max_samples, cond |-> read_condition,
                    result |-> r.result, fetched |-> f.fetched]
        /\ co_pc' = IF f.panicked THEN "idle" ELSE "clearing"
  /\ UNCHANGED error_bin
  /\ UNCHANGED <<clock, topic_cache, dr_birth, notif, rd_pc>>
  /\ UNCHANGED dp_vars
  /\ UNCHANGED ext_vars

\* One round of `while let Ok(_) = self.notification_receiver.try_recv() {}`:
\* a pending notification is consumed, an empty channel ends the call.
take_try_recv ==
  /\ co_pc = "clearing"
  /\ IF notif > 0
       THEN notif' = notif - 1 /\ co_pc' = co_pc
       ELSE notif' = notif /\ co_pc' = "idle"
  /\ UNCHANGED <<clock, topic_cache, dr_birth, latest_instant, datasamples, last,
                 ingested, error_bin, dr_panicked, rd_pc>>
  /\ UNCHANGED dp_vars
  /\ UNCHANGED ext_vars

WakeNext ==
  \/ DataReader_new
  \/ \E d \in DataInputs : reader_add_change(d.key, d.shape)
  \/ reader_send_notification
  \/ take_fetch_and_collect(MaxChanges, ReadCondition_any)
  \/ take_try_recv

\* ================================================== DomainParticipant
DpInit ==
  /\ new_pc = "start"
  /\ new_result = "none"
  /\ strong = 0
  /\ ev = "none"
  /\ stop_signals = 0
  /\ disc = "none"
  /\ reported = "none"
  /\ started_chan = [msgs |-> <<>>, sender |-> TRUE]
  /\ cmd_chan = [msgs |-> <<>>, receiver |-> TRUE]
  /\ join_chan = 0
  /\ drop_pc = "none"
  /\ stop_disc_ok = FALSE
  /\ caches = [event_loop |-> 0, dds_cache |-> 0, content |-> <<{}, {}>>]

\* enum DiscoveryCommand, the two commands sent by the code at hand.  guid is
\* the field of REMOVE_LOCAL_READER; STOP_DISCOVERY has none (0 here).
STOP_DISCOVERY == [cmd |-> "STOP_DISCOVERY", guid |-> 0]

\* A REMOVE_LOCAL_READER that names no reader.
REMOVE_LOCAL_READER_unknown_guid(guid) == [cmd |-> "REMOVE_LOCAL_READER", guid |-> 0]

REMOVE_LOCAL_READER(guid) == [cmd |-> "REMOVE_LOCAL_READER", guid |-> guid]

\* DomainParticipant_Inner::new, the two DDSCache handles it makes: a_r_cache is
\* cloned into DPEventLoop::new, the field dds_cache is a second
\* Arc::new(RwLock::new(DDSCache::new())).
Inner_new_caches ==
  [event_loop |-> 1, dds_cache |-> 2, content |-> <<{}, {}>>]

\* DomainParticipant_Inner::get_dds_cache (and DomainParticipant_Disc's and
\* DomainParticipant's, which delegate to it): a clone of the field dds_cache.
get_dds_cache == caches.dds_cache

\* DomainParticipant_Disc::new -> DomainParticipant_Inner::new: the event-loop
\* thread is spawned (or thread::Builder::spawn fails and `?` returns the error).
Inner_new ==
  /\ new_pc = "start"
  /\ \E spawned \in BOOLEAN :
       IF spawned
         THEN /\ ev' = "running"
              /\ caches' = Inner_new_caches
              /\ new_pc' = "made_dpd"
              /\ new_result' = new_result
         ELSE /\ new_pc' = "returned"
              /\ new_result' = "Err"
              /\ UNCHANGED <<ev, caches>>
  /\ UNCHANGED <<strong, stop_signals, disc, reported, started_chan, cmd_chan,
                 join_chan, drop_pc, stop_disc_ok>>
  /\ UNCHANGED dr_vars
  /\ UNCHANGED ext_vars

\* DomainParticipant::new, `let dp = ...` to djh_sender.send(discovery_handle).
\* A failed spawn drops the closure (Discovery, with the command receiver and
\* the started sender in it), and `?` returns: dp, the only strong handle, is
\* dropped.
spawn_discovery ==
  /\ new_pc = "made_dpd"
  /\ \E spawned \in BOOLEAN :
       IF spawned
         THEN /\ strong' = 1
              /\ disc' = "starting"
              /\ join_chan' = 1
              /\ new_pc' = "waiting"
              /\ UNCHANGED <<started_chan, cmd_chan, drop_pc>>
         ELSE /\ strong' = 0
              /\ started_chan' = [started_chan EXCEPT !.sender = FALSE]
              /\ cmd_chan' = [cmd_chan EXCEPT !.receiver = FALSE]
              /\ drop_pc' = "disc_send"
              /\ new_pc' = "dropping"
              /\ UNCHANGED <<disc, join_chan>>
  /\ UNCHANGED <<new_result, ev, stop_signals, reported, stop_disc_ok, caches>>
  /\ UNCHANGED dr_vars
  /\ UNCHANGED ext_vars

\* discovery_started_receiver.recv_timeout(10 s): a waiting message first, else
\* Disconnected when the sender is gone, else Timeout.
recv_timeout_result ==
  IF started_chan.msgs # <<>>
    THEN IF Head(started_chan.msgs) = "Ok" THEN "OkOk" ELSE "OkErr"
    ELSE IF started_chan.sender THEN "Timeout" ELSE "Disconnected"

\* A match that takes a recv_timeout error for a started discovery.
new_match_timeout_ok(r) == IF r = "OkErr" THEN "Err" ELSE "Ok"

\* The match on recv_timeout's result at the end of DomainParticipant::new.
new_match(r) == IF r = "OkOk" THEN "Ok" ELSE "Err"

\* DomainParticipant::new, the wait for discovery and the return.  Ok(dp) hands
\* the handle to the caller; every other arm drops dp (std::mem::drop, or the end
\* of the scope) before the error is returned.
wait_for_discovery ==
  /\ new_pc = "waiting"
  /\ LET r == recv_timeout_result
     IN /\ started_chan' = [started_chan EXCEPT !.msgs = IF @ = <<>> THEN @ ELSE Tail(@)]
        /\ IF new_match(r) = "Ok"
             THEN /\ new_result' = "Ok"
                  /\ new_pc' = "returned"
                  /\ UNCHANGED <<strong, drop_pc>>
             ELSE /\ strong' = 0
                  /\ drop_pc' = "disc_send"
                  /\ new_pc' = "dropping"
                  /\ new_result' = new_result
  /\ UNCHANGED <<ev, stop_signals, disc, reported, cmd_chan, join_chan,
                 stop_disc_ok, caches>>
  /\ UNCHANGED dr_vars
  /\ UNCHANGED ext_vars

\* The error return of DomainParticipant::new, once the drop of dp has finished.
new_return_err ==
  /\ new_pc = "dropping"
  /\ drop_pc = "done"
  /\ new_result' = "Err"
  /\ new_pc' = "returned"
  /\ UNCHANGED <<strong, ev, stop_signals, disc, reported, started_chan, cmd_chan,
                 join_chan, drop_pc, stop_disc_ok, caches>>
  /\ UNCHANGED dr_vars
  /\ UNCHANGED ext_vars

\* DomainParticipant::clone (#[derive(Clone)]: one more strong Arc).
clone_handle ==
  /\ new_result = "Ok"
  /\ strong > 0
  /\ strong < MaxHandles
  /\ strong' = strong + 1
  /\ UNCHANGED <<new_pc, new_result, ev, stop_signals, disc, reported, started_chan,
                 cmd_chan, join_chan, drop_pc, stop_disc_ok, caches>>
  /\ UNCHANGED dr_vars
  /\ UNCHANGED ext_vars

\* The strong count of Arc<Mutex<DomainParticipant_Disc>>: the DomainParticipant
\* handles and the Arcs that operations on a weak handle got from upgrade.
Arc_strong_count == strong + upgrades

\* A strong handle goes out of scope; the release of the last strong Arc runs
\* Drop for DomainParticipant_Disc.
drop_handle ==
  /\ new_result = "Ok"
  /\ strong > 0
  /\ strong' = strong - 1
  /\ drop_pc' = IF Arc_strong_count = 1 THEN "disc_send" ELSE drop_pc
  /\ UNCHANGED <<new_pc, new_result, ev, stop_signals, disc, reported, started_chan,
                 cmd_chan, join_chan, stop_disc_ok, caches>>
  /\ UNCHANGED dr_vars
  /\ UNCHANGED ext_vars

\* ---------------------------------------- Drop for DomainParticipant_Disc
\* discovery_command_channel.send(STOP_DISCOVERY): an error (the receiver is
\* gone) returns at once; a full channel blocks the sender.
Disc_drop_send ==
  /\ drop_pc = "disc_send"
  /\ IF cmd_chan.receiver
       THEN /\ Len(cmd_chan.msgs) < DiscoveryCommandCap
            /\ cmd_chan' = [cmd_chan EXCEPT !.msgs = Append(@, STOP_DISCOVERY)]
            /\ stop_disc_ok' = TRUE
            /\ drop_pc' = "disc_try_recv"
       ELSE /\ drop_pc' = "inner_send"
            /\ UNCHANGED <<cmd_chan, stop_disc_ok>>
  /\ UNCHANGED <<new_pc, new_result, strong, ev, stop_signals, disc, reported,
                 started_chan, join_chan, caches>>
  /\ UNCHANGED dr_vars
  /\ UNCHANGED ext_vars

\* `if let Ok(handle) = self.discovery_join_handle.try_recv()`.
Disc_drop_try_recv ==
  /\ drop_pc = "disc_try_recv"
  /\ IF join_chan > 0
       THEN join_chan' = join_chan - 1 /\ drop_pc' = "disc_join"
       ELSE join_chan' = join_chan /\ drop_pc' = "inner_send"
  /\ UNCHANGED <<new_pc, new_result, strong, ev, stop_signals, disc, reported,
                 started_chan, cmd_chan, stop_disc_ok, caches>>
  /\ UNCHANGED dr_vars
  /\ UNCHANGED ext_vars

\* A drop that does not wait for the discovery thread.
Disc_drop_join_no_wait ==
  /\ drop_pc = "disc_join"
  /\ drop_pc' = "inner_send"
  /\ UNCHANGED <<new_pc, new_result, strong, ev, stop_signals, disc, reported,
                 started_chan, cmd_chan, join_chan, stop_disc_ok, caches>>
  /\ UNCHANGED dr_vars
  /\ UNCHANGED ext_vars

\* handle.join().unwrap(): returns when the discovery thread has exited.  The
\* fields of DomainParticipant_Disc, dpi first, are dropped after it.
Disc_drop_join ==
  /\ drop_pc = "disc_join"
  /\ disc = "exited"
  /\ drop_pc' = "inner_send"
  /\ UNCHANGED <<new_pc, new_result, strong, ev, stop_signals, disc, reported,
                 started_chan, cmd_chan, join_chan, stop_disc_ok, caches>>
  /\ UNCHANGED dr_vars
  /\ UNCHANGED ext_vars

\* --------------------------------------- Drop for DomainParticipant_Inner
\* stop_poll_sender.send(()): an error (the event loop dropped its receiver)
\* returns without joining.
Inner_drop_send ==
  /\ drop_pc = "inner_send"
  /\ IF ev = "running"
       THEN stop_signals' = stop_signals + 1 /\ drop_pc' = "inner_join"
       ELSE stop_signals' = stop_signals /\ drop_pc' = "done"
  /\ UNCHANGED <<new_pc, new_result, strong, ev, disc, reported, started_chan,
                 cmd_chan, join_chan, stop_disc_ok, caches>>
  /\ UNCHANGED dr_vars
  /\ UNCHANGED ext_vars

\* A drop that does not wait for the event-loop thread.
Inner_drop_join_no_wait ==
  /\ drop_pc = "inner_join"
  /\ drop_pc' = "done"
  /\ UNCHANGED <<new_pc, new_result, strong, ev, stop_signals, disc, reported,
                 started_chan, cmd_chan, join_chan, stop_disc_ok, caches>>
  /\ UNCHANGED dr_vars
  /\ UNCHANGED ext_vars

\* self.ev_loop_handle.take().unwrap().join(): returns when the event-loop
\* thread has exited.
Inner_drop_join ==
  /\ drop_pc = "inner_join"
  /\ ev = "exited"
  /\ drop_pc' = "done"
  /\ UNCHANGED <<new_pc, new_result, strong, ev, stop_signals, disc, reported,
                 started_chan, cmd_chan, join_chan, stop_disc_ok, caches>>
  /\ UNCHANGED dr_vars
  /\ UNCHANGED ext_vars

\* ------------------------------------------------- the background threads
\* Discovery::discovery_event_loop reports its start on the started channel.
discovery_report(r) ==
  /\ disc = "starting"
  /\ reported' = r
  /\ started_chan' = [started_chan EXCEPT !.msgs = Append(@, r)]
  /\ disc' = IF r = "Ok" THEN "running" ELSE "failed"
  /\ UNCHANGED <<new_pc, new_result, strong, ev, stop_signals, cmd_chan, join_chan,
                 drop_pc, stop_disc_ok, caches>>
  /\ UNCHANGED dr_vars
  /\ UNCHANGED ext_vars

\* The running discovery loop takes a command; STOP_DISCOVERY ends the loop.
discovery_command ==
  /\ disc = "running"
  /\ cmd_chan.msgs # <<>>
  /\ cmd_chan' = [cmd_chan EXCEPT !.msgs = Tail(@)]
  /\ disc' = IF Head(cmd_chan.msgs).cmd = "STOP_DISCOVERY" THEN "stopping" ELSE disc
  /\ UNCHANGED <<new_pc, new_result, strong, ev, stop_signals, reported,
                 started_chan, join_chan, drop_pc, stop_disc_ok, caches>>
  /\ UNCHANGED dr_vars
  /\ UNCHANGED ext_vars

\* The discovery thread ends: after STOP_DISCOVERY, after a failed start, or by
\* a panic before it reported.  Its Discovery value is dropped, and with it the
\* command receiver and the started sender.
discovery_exit ==
  /\ disc \in {"starting", "failed", "stopping"}
  /\ disc' = "exited"
  /\ started_chan' = [started_chan EXCEPT !.sender = FALSE]
  /\ cmd_chan' = [cmd_chan EXCEPT !.receiver = FALSE]
  /\ UNCHANGED <<new_pc, new_result, strong, ev, stop_signals, reported, join_chan,
                 drop_pc, stop_disc_ok, caches>>
  /\ UNCHANGED dr_vars
  /\ UNCHANGED ext_vars

\* The discovery thread blocks for good (it never polls its commands again).
discovery_hang ==
  /\ disc \in {"starting", "running", "failed", "stopping"}
  /\ disc' = "hung"
  /\ UNCHANGED <<new_pc, new_result, strong, ev, stop_signals, reported,
                 started_chan, cmd_chan, join_chan, drop_pc, stop_disc_ok, caches>>
  /\ UNCHANGED dr_vars
  /\ UNCHANGED ext_vars

\* DPEventLoop::event_loop returns on the stop signal.
event_loop_stop ==
  /\ ev = "running"
  /\ stop_signals > 0
  /\ ev' = "exited"
  /\ UNCHANGED <<new_pc, new_result, strong, stop_signals, disc, reported,
                 started_chan, cmd_chan, join_chan, drop_pc, stop_disc_ok, caches>>
  /\ UNCHANGED dr_vars
  /\ UNCHANGED ext_vars

\* The event-loop thread panics: it ends and drops its stop receiver.
event_loop_panic ==
  /\ ev = "running"
  /\ ev' = "exited"
  /\ UNCHANGED <<new_pc, new_result, strong, stop_signals, disc, reported,
                 started_chan, cmd_chan, join_chan, drop_pc, stop_disc_ok, caches>>
  /\ UNCHANGED dr_vars
  /\ UNCHANGED ext_vars

\* ------------------------------------------------- the participant's caches
cache_add_change(handle, c) ==
  [caches EXCEPT !.content[handle] = @ \cup {c}]

\* An RTPS reader of the event loop adds a change to the cache the loop was given.
event_loop_add_change(c) ==
  /\ ev = "running"
  /\ caches' = cache_add_change(caches.event_loop, c)
  /\ UNCHANGED <<new_pc, new_result, strong, ev, stop_signals, disc, reported,
                 started_chan, cmd_chan, join_chan, drop_pc, stop_disc_ok>>
  /\ UNCHANGED dr_vars
  /\ UNCHANGED ext_vars

\* User-side code adds a change through the handle get_dds_cache gave it.
user_add_change(c) ==
  /\ new_result = "Ok"
  /\ strong > 0
  /\ caches' = cache_add_change(get_dds_cache, c)
  /\ UNCHANGED <<new_pc, new_result, strong, ev, stop_signals, disc, reported,
                 started_chan, cmd_chan, join_chan, drop_pc, stop_disc_ok>>
  /\ UNCHANGED dr_vars
  /\ UNCHANGED ext_vars

DpNext ==
  \/ Inner_new
  \/ spawn_discovery
  \/ wait_for_discovery
  \/ new_return_err
  \/ clone_handle
  \/ drop_handle
  \/ Disc_drop_send
  \/ Disc_drop_try_recv
  \/ Disc_drop_join
  \/ Inner_drop_send
  \/ Inner_drop_join
  \/ \E r \in {"Ok", "Err"} : discovery_report(r)
  \/ discovery_command
  \/ discovery_exit
  \/ discovery_hang
  \/ event_loop_stop
  \/ event_loop_panic
  \/ \E c \in 1..MaxDpChanges : event_loop_add_change(c)
  \/ \E c \in 1..MaxDpChanges : user_add_change(c)

\* ================================= locks and bounded channels of a participant
\* User threads calling into one participant.
MaxThreads == 2
\* Capacity of the bounded channels in this part of the model (the code gives
\* add_reader 100, remove_reader 10, the discovery command channel 10).
LkChanCap == 2

LkThreads == 1..MaxThreads

\* The operations that send on a bounded channel, and one that only locks.
LkSendOps == {"add_reader", "remove_reader", "STOP_DISCOVERY", "REMOVE_LOCAL_READER"}

\* The channel an operation sends on.
LkChannelOf(op) ==
  CASE op = "add_reader" -> "sender_add_reader"
    [] op = "remove_reader" -> "sender_remove_reader"
    [] OTHER -> "discovery_command"

LkChannels == {"sender_add_reader", "sender_remove_reader", "discovery_command"}

LkIdle == [op |-> "none", pc |-> "idle", held |-> {}]

LkInit ==
  /\ lk_th = [t \in LkThreads |-> LkIdle]
  /\ lk_outer = 0
  /\ lk_inner = 0
  /\ lk_chan = [c \in LkChannels |-> 0]
  /\ lk_prog = [t \in LkThreads |-> <<>>]

\* A call of DomainParticipant_Inner::add_reader / remove_reader.  Both take
\* &self, and the only DomainParticipant_Inner there is lives in the
\* Mutex<DomainParticipant_Inner> of DomainParticipant_Disc.dpi: the caller
\* reaches it through that mutex's guard, which it holds for the whole call.
Inner_call(t, op) ==
  /\ lk_th[t].pc = "idle"
  /\ lk_inner = 0
  /\ lk_inner' = t
  /\ lk_th' = [lk_th EXCEPT ![t] = [op |-> op, pc |-> "send", held |-> {"inner"}]]
  /\ UNCHANGED <<lk_outer, lk_chan>>
  /\ UNCHANGED lk_prog
  /\ UNCHANGED <<dr_vars, dp_vars, api_vars, dd_vars, in_vars, rdr_vars, ext2_vars>>

\* Drop for DomainParticipant_Disc and Drop for DataReader reach their send with
\* no lock taken: drop(&mut self) runs on the value itself.
Drop_call(t, op) ==
  /\ lk_th[t].pc = "idle"
  /\ lk_th' = [lk_th EXCEPT ![t] = [op |-> op, pc |-> "send", held |-> {}]]
  /\ UNCHANGED <<lk_outer, lk_inner, lk_chan>>
  /\ UNCHANGED lk_prog
  /\ UNCHANGED <<dr_vars, dp_vars, api_vars, dd_vars, in_vars, rdr_vars, ext2_vars>>

\* SyncSender::send: blocks while the channel is full.  The caller's guard, if
\* any, is released when the call has returned.
SyncSender_send(t) ==
  /\ lk_th[t].pc = "send"
  /\ lk_chan[LkChannelOf(lk_th[t].op)] < LkChanCap
  /\ lk_chan' = [lk_chan EXCEPT ![LkChannelOf(lk_th[t].op)] = @ + 1]
  /\ lk_inner' = IF "inner" \in lk_th[t].held THEN 0 ELSE lk_inner
  /\ lk_outer' = IF "outer" \in lk_th[t].held THEN 0 ELSE lk_outer
  /\ lk_th' = [lk_th EXCEPT ![t] = LkIdle]
  /\ UNCHANGED lk_prog
  /\ UNCHANGED <<dr_vars, dp_vars, api_vars, dd_vars, in_vars, rdr_vars, ext2_vars>>

\* DomainParticipant::domain_id: self.dpi.lock() on the outer mutex ...
domain_id_lock_outer(t) ==
  /\ lk_th[t].pc = "idle"
  /\ lk_outer = 0
  /\ lk_outer' = t
  /\ lk_th' = [lk_th EXCEPT ![t] = [op |-> "domain_id", pc |-> "lock_inner",
                                    held |-> {"outer"}]]
  /\ UNCHANGED <<lk_inner, lk_chan>>
  /\ UNCHANGED lk_prog
  /\ UNCHANGED <<dr_vars, dp_vars, api_vars, dd_vars, in_vars, rdr_vars, ext2_vars>>

\* ... then DomainParticipant_Disc::domain_id: self.dpi.lock() on the inner
\* mutex, the read, and both guards released at the end of the statement.
domain_id_lock_inner(t) ==
  /\ lk_th[t].pc = "lock_inner"
  /\ lk_inner = 0
  /\ lk_outer' = 0
  /\ lk_th' = [lk_th EXCEPT ![t] = LkIdle]
  /\ UNCHANGED <<lk_inner, lk_chan>>
  /\ UNCHANGED lk_prog
  /\ UNCHANGED <<dr_vars, dp_vars, api_vars, dd_vars, in_vars, rdr_vars, ext2_vars>>

\* The receiving thread (the event loop for the reader channels, discovery for
\* the command channel) takes one message.
channel_recv(c) ==
  /\ lk_chan[c] > 0
  /\ lk_chan' = [lk_chan EXCEPT ![c] = @ - 1]
  /\ UNCHANGED <<lk_th, lk_outer, lk_inner>>
  /\ UNCHANGED lk_prog
  /\ UNCHANGED <<dr_vars, dp_vars, api_vars, dd_vars, in_vars, rdr_vars, ext2_vars>>

LkNext ==
  \/ \E t \in LkThreads, op \in {"add_reader", "remove_reader"} : Inner_call(t, op)
  \/ \E t \in LkThreads, op \in {"STOP_DISCOVERY", "REMOVE_LOCAL_READER"} : Drop_call(t, op)
  \/ \E t \in LkThreads : SyncSender_send(t)
  \/ \E t \in LkThreads : domain_id_lock_outer(t)
  \/ \E t \in LkThreads : domain_id_lock_inner(t)
  \/ \E c \in LkChannels : channel_recv(c)

\* --------------------------------- the participant mutexes, call by call
\* `self.dpi.lock().unwrap().f(..)` on a DomainParticipant (or on the Arc a
\* DomainParticipantWeak upgraded to), where DomainParticipant_Disc::f is
\* `self.dpi.lock().unwrap().f(..)` on the inner participant: the outer mutex,
\* then the inner one; the inner guard is released when Disc::f returns, the
\* outer guard at the end of the caller's statement.
locked_call == <<"lock_outer", "lock_inner", "unlock_inner", "unlock_outer">>

\* DomainParticipant::weak_clone: self.clone(), then self.get_guid().
weak_clone == locked_call

\* A create call that takes the outer mutex first and builds the weak handle
\* while it holds the guard.
create_call_weak_clone_inside ==
  <<"lock_outer">> \o weak_clone \o <<"lock_inner", "unlock_inner", "unlock_outer">>

\* create_publisher / create_subscriber / create_topic of DomainParticipant:
\* `let w = self.weak_clone();` as a statement of its own, then the locked call.
create_call == weak_clone \o locked_call

\* PartialEq::eq on two handles of one participant: get_guid, domain_id and
\* participant_id, each on self and on other, each a statement-local lock.
eq_call ==
  locked_call \o locked_call \o locked_call \o locked_call \o locked_call \o locked_call

DpCreateOps == {"create_publisher", "create_subscriber", "create_topic"}

DpLockedOps ==
  {"domain_id", "participant_id", "get_discovered_topics", "get_dds_cache",
   "discovery_db", "get_guid", "weak_clone"}

\* The operations of DomainParticipantWeak that upgrade and lock.
WeakLockedOps ==
  {"Weak::create_publisher", "Weak::create_subscriber", "Weak::create_topic",
   "Weak::domain_id", "Weak::participant_id", "Weak::get_discovered_topics"}

ParticipantOps == DpCreateOps \cup DpLockedOps \cup WeakLockedOps \cup {"eq"}

\* The lock steps of one operation, in program order.
lock_steps(op) ==
  IF op \in DpCreateOps THEN create_call
  ELSE IF op = "eq" THEN eq_call
  ELSE locked_call

\* A thread calls an operation on its handle of the participant.
participant_call(t, op) ==
  /\ lk_th[t].pc = "idle"
  /\ lk_th' = [lk_th EXCEPT ![t] = [op |-> op, pc |-> "running", held |-> {}]]
  /\ lk_prog' = [lk_prog EXCEPT ![t] = lock_steps(op)]
  /\ UNCHANGED <<lk_outer, lk_inner, lk_chan>>
  /\ UNCHANGED <<dr_vars, dp_vars, api_vars, dd_vars, in_vars, rdr_vars, ext2_vars>>

\* Mutex::lock on Arc<Mutex<DomainParticipant_Disc>>: blocks while the mutex is
\* held, by whichever thread (std::sync::Mutex is not reentrant).
lock_outer(t) ==
  /\ lk_th[t].pc = "running"
  /\ lk_prog[t] # <<>> /\ Head(lk_prog[t]) = "lock_outer"
  /\ lk_outer = 0
  /\ lk_outer' = t
  /\ lk_th' = [lk_th EXCEPT ![t].held = @ \cup {"outer"}]
  /\ lk_prog' = [lk_prog EXCEPT ![t] = Tail(@)]
  /\ UNCHANGED <<lk_inner, lk_chan>>
  /\ UNCHANGED <<dr_vars, dp_vars, api_vars, dd_vars, in_vars, rdr_vars, ext2_vars>>

\* Mutex::lock on Arc<Mutex<DomainParticipant_Inner>>.
lock_inner(t) ==
  /\ lk_th[t].pc = "running"
  /\ lk_prog[t] # <<>> /\ Head(lk_prog[t]) = "lock_inner"
  /\ lk_inner = 0
  /\ lk_inner' = t
  /\ lk_th' = [lk_th EXCEPT ![t].held = @ \cup {"inner"}]
  /\ lk_prog' = [lk_prog EXCEPT ![t] = Tail(@)]
  /\ UNCHANGED <<lk_outer, lk_chan>>
  /\ UNCHANGED <<dr_vars, dp_vars, api_vars, dd_vars, in_vars, rdr_vars, ext2_vars>>

\* The inner guard goes out of scope.
unlock_inner(t) ==
  /\ lk_th[t].pc = "running"
  /\ lk_prog[t] # <<>> /\ Head(lk_prog[t]) = "unlock_inner"
  /\ lk_inner' = 0
  /\ lk_th' = [lk_th EXCEPT ![t].held = @ \ {"inner"}]
  /\ lk_prog' = [lk_prog EXCEPT ![t] = Tail(@)]
  /\ UNCHANGED <<lk_outer, lk_chan>>
  /\ UNCHANGED <<dr_vars, dp_vars, api_vars, dd_vars, in_vars, rdr_vars, ext2_vars>>

\* The outer guard goes out of scope; after the last step the call returns.
unlock_outer(t) ==
  /\ lk_th[t].pc = "running"
  /\ lk_prog[t] # <<>> /\ Head(lk_prog[t]) = "unlock_outer"
  /\ lk_outer' = 0
  /\ lk_th' = [lk_th EXCEPT ![t] =
                 IF Tail(lk_prog[t]) = <<>> THEN LkIdle
                 ELSE [@ EXCEPT !.held = @ \ {"outer"}]]
  /\ lk_prog' = [lk_prog EXCEPT ![t] = Tail(@)]
  /\ UNCHANGED <<lk_inner, lk_chan>>
  /\ UNCHANGED <<dr_vars, dp_vars, api_vars, dd_vars, in_vars, rdr_vars, ext2_vars>>

LockOrderNext ==
  \/ \E t \in LkThreads, op \in ParticipantOps : participant_call(t, op)
  \/ \E t \in LkThreads : lock_outer(t)
  \/ \E t \in LkThreads : lock_inner(t)
  \/ \E t \in LkThreads : unlock_inner(t)
  \/ \E t \in LkThreads : unlock_outer(t)

\* ============================ calls through a dangling participant reference
\* The user-API operations reached through a DomainParticipantWeak, and
\* DataReader::new, which asks its Subscriber for the participant.
WeakOps ==
  {"create_publisher", "create_subscriber", "create_topic", "domain_id",
   "participant_id", "DataReader_new"}

ApiInit ==
  /\ weak_last = [op |-> "none", upgraded |-> FALSE, result |-> "none"]
  /\ weak_handles = 0
  /\ upgrades = 0

\* Weak::upgrade on DomainParticipantWeak.dpi: Some while a strong Arc lives.
Weak_upgrade == Arc_strong_count > 0

\* What each operation returns, by the arm of its match on the upgrade.
Weak_result(op, upgraded) ==
  IF upgraded THEN "Ok"
  ELSE CASE op \in {"create_publisher", "create_subscriber"} -> "OutOfResources"
         [] op = "create_topic" -> "LockPoisoned"
         [] op \in {"domain_id", "participant_id"} -> "panic"
         [] op = "DataReader_new" -> "PreconditionNotMet"

\* A call on a weak handle obtained from a constructed participant.
weak_call(op) ==
  /\ new_result = "Ok"
  /\ weak_last' = [op |-> op, upgraded |-> Weak_upgrade,
                   result |-> Weak_result(op, Weak_upgrade)]
  /\ UNCHANGED <<weak_handles, upgrades>>
  /\ UNCHANGED <<dr_vars, dp_vars, lk_vars, dd_vars, in_vars, rdr_vars, ext2_vars>>

\* ------------------------------------------- weak handles of a participant
\* Operations on a weak handle that are between their upgrade and their return,
\* at once.
MaxWeakCalls == 1

\* DomainParticipantWeak::new (Arc::downgrade(&dp.dpi)) from a strong handle, or
\* #[derive(Clone)] on a DomainParticipantWeak.
DomainParticipantWeak_make ==
  /\ new_result = "Ok"
  /\ strong > 0 \/ weak_handles > 0
  /\ weak_handles < MaxWeaks
  /\ weak_handles' = weak_handles + 1
  /\ UNCHANGED <<weak_last, upgrades>>
  /\ UNCHANGED <<dr_vars, dp_vars, lk_vars, dd_vars, in_vars, rdr_vars, ext2_vars>>

\* A DomainParticipantWeak goes out of scope: the Weak is released, nothing else.
DomainParticipantWeak_drop ==
  /\ weak_handles > 0
  /\ weak_handles' = weak_handles - 1
  /\ UNCHANGED <<weak_last, upgrades>>
  /\ UNCHANGED <<dr_vars, dp_vars, lk_vars, dd_vars, in_vars, rdr_vars, ext2_vars>>

\* An operation of DomainParticipantWeak, `match self.dpi.upgrade()`, arm
\* Some(dpi): the operation holds a strong Arc until it returns.
Weak_op_upgrade(op) ==
  /\ new_result = "Ok"
  /\ weak_handles > 0
  /\ Weak_upgrade
  /\ upgrades < MaxWeakCalls
  /\ upgrades' = upgrades + 1
  /\ weak_last' = [op |-> op, upgraded |-> TRUE, result |-> "none"]
  /\ UNCHANGED weak_handles
  /\ UNCHANGED <<dr_vars, dp_vars, lk_vars, dd_vars, in_vars, rdr_vars, ext2_vars>>

\* The operation returns: its guard, then its Arc `dpi` are dropped.  If that
\* Arc is the last strong one, Drop for DomainParticipant_Disc runs here.
Weak_op_return ==
  /\ upgrades > 0
  /\ upgrades' = upgrades - 1
  /\ weak_last' = [weak_last EXCEPT !.result = "Ok"]
  /\ drop_pc' = IF Arc_strong_count = 1 THEN "disc_send" ELSE drop_pc
  /\ UNCHANGED weak_handles
  /\ UNCHANGED <<new_pc, new_result, strong, ev, stop_signals, disc, reported,
                 started_chan, cmd_chan, join_chan, stop_disc_ok, caches>>
  /\ UNCHANGED <<dr_vars, lk_vars, dd_vars, in_vars, rdr_vars, ext2_vars>>

\* The operations of DomainParticipantWeak that upgrade.
WeakUpgradeOps ==
  {"create_publisher", "create_subscriber", "create_topic", "domain_id",
   "participant_id", "get_discovered_topics"}

ShutdownNext ==
  \/ DpNext
  \/ DomainParticipantWeak_make
  \/ DomainParticipantWeak_drop
  \/ \E op \in WeakUpgradeOps : Weak_op_upgrade(op)
  \/ Weak_op_return

\* ===================================================== DDSData and inline QoS
\* Key hashes are 0..MaxHash (u128 in the code; no arithmetic is done on them).
MaxHash == 2
\* Source timestamps a caller passes are 1..MaxTs.
MaxTs == 2

\* Option<T>: None is the empty sequence, Some(x) the sequence of x alone.
None == <<>>

Some(x) == <<x>>

\* enum StatusInfoEnum; a StatusInfo is a BitFlags set of them (the three
\* leading octets `em` carry nothing).
StatusInfoEnum == {"Disposed", "Unregistered", "Filtered"}

StatusInfos == SUBSET StatusInfoEnum

\* A change_kind that tests Unregistered before Disposed.
StatusInfo_change_kind_unregistered_first(si) ==
  IF "Unregistered" \in si THEN "NOT_ALIVE_UNREGISTERED"
  ELSE IF "Disposed" \in si THEN "NOT_ALIVE_DISPOSED"
  ELSE "ALIVE"

\* StatusInfo::change_kind.
StatusInfo_change_kind(si) ==
  IF "Disposed" \in si THEN "NOT_ALIVE_DISPOSED"
  ELSE IF "Unregistered" \in si THEN "NOT_ALIVE_UNREGISTERED"
  ELSE "ALIVE"

\* struct KeyHash { key: u128 }.
KeyHashes == { [key |-> h] : h \in 0..MaxHash }

KeyHash_empty == [key |-> 0]

KeyHash_value(kh) == kh.key

Timestamps == 1..MaxTs

\* The keyed user data handed to a DataWriter: a key and a value field.
UserData == [key : Keys, val : Keys]

\* cdr_serializer::to_bytes: the fields in declaration order; an error for data
\* the serializer refuses.
to_bytes(data, ser_ok) ==
  IF ser_ok THEN [ok |-> TRUE, bytes |-> <<data.key, data.val>>]
  ELSE [ok |-> FALSE, bytes |-> <<>>]

\* DDSData::serialize_data: the bytes, or an empty Vec when to_bytes failed.
serialize_data(data, ser_ok) ==
  LET r == to_bytes(data, ser_ok) IN IF r.ok THEN r.bytes ELSE <<>>

\* SerializedPayload::new(representation_identifier, value).
SerializedPayload_new(rep, value) ==
  [representation_identifier |-> rep, value |-> value]

SerializedPayloads ==
  { SerializedPayload_new("CDR_LE", <<d.key, d.val>>) : d \in UserData }

\* DDSData::new(payload).
DDSData_new(payload) ==
  [source_timestamp |-> "now",
   change_kind |-> "ALIVE",
   reader_id |-> "ENTITYID_UNKNOWN",
   writer_id |-> "ENTITYID_UNKNOWN",
   value |-> Some(payload),
   value_key_hash |-> 0]

\* A new_disposed that drops the key hash it is given.
DDSData_new_disposed_no_hash(status_info, key_hash) ==
  [source_timestamp |-> "now",
   change_kind |-> IF status_info # None
                     THEN StatusInfo_change_kind(status_info[1]) ELSE "ALIVE",
   reader_id |-> "ENTITYID_UNKNOWN",
   writer_id |-> "ENTITYID_UNKNOWN",
   value |-> None,
   value_key_hash |-> 0]

\* DDSData::new_disposed(status_info, key_hash).
DDSData_new_disposed(status_info, key_hash) ==
  LET change_kind == IF status_info # None
                       THEN StatusInfo_change_kind(status_info[1])
                       ELSE "ALIVE"
      value_key_hash == IF key_hash # None THEN key_hash[1] ELSE KeyHash_empty
  IN [source_timestamp |-> "now",
      change_kind |-> change_kind,
      reader_id |-> "ENTITYID_UNKNOWN",
      writer_id |-> "ENTITYID_UNKNOWN",
      value |-> None,
      value_key_hash |-> KeyHash_value(value_key_hash)]

\* A from that leaves the payload out.
DDSData_from_no_payload(data, ser_ok, source_timestamp) ==
  [source_timestamp |-> IF source_timestamp # None THEN source_timestamp[1] ELSE "now",
   change_kind |-> "ALIVE",
   reader_id |-> "ENTITYID_UNKNOWN",
   writer_id |-> "ENTITYID_UNKNOWN",
   value |-> None,
   value_key_hash |-> 0]

\* DDSData::from(data, source_timestamp).
DDSData_from(data, ser_ok, source_timestamp) ==
  LET value == serialize_data(data, ser_ok)
      ts == IF source_timestamp # None THEN source_timestamp[1] ELSE "now"
      serialized_payload == SerializedPayload_new("CDR_LE", value)
  IN [source_timestamp |-> ts,
      change_kind |-> "ALIVE",
      reader_id |-> "ENTITYID_UNKNOWN",
      writer_id |-> "ENTITYID_UNKNOWN",
      value |-> Some(serialized_payload),
      value_key_hash |-> 0]

\* DDSData::from_dispose(_key, source_timestamp): the key is not used.
DDSData_from_dispose(key, source_timestamp) ==
  LET ts == IF source_timestamp # None THEN source_timestamp[1] ELSE "now"
  IN [source_timestamp |-> ts,
      change_kind |-> "NOT_ALIVE_DISPOSED",
      reader_id |-> "ENTITYID_UNKNOWN",
      writer_id |-> "ENTITYID_UNKNOWN",
      value |-> None,
      value_key_hash |-> 0]

OptTimestamps == {None} \cup { Some(t) : t \in Timestamps }

OptStatusInfos == {None} \cup { Some(si) : si \in StatusInfos }

OptKeyHashes == {None} \cup { Some(kh) : kh \in KeyHashes }

DdInit ==
  /\ dd_call = [fn |-> "none"]
  /\ dd = None
  /\ dd_prev_call = [fn |-> "none"]
  /\ dd_prev = None

\* The constructor calls.  Each keeps its call and its result in dd_call / dd;
\* the ones before move to dd_prev_call / dd_prev.
call_new(payload) ==
  /\ dd_call' = [fn |-> "new", payload |-> payload]
  /\ dd' = DDSData_new(payload)
  /\ dd_prev_call' = dd_call
  /\ dd_prev' = dd
  /\ UNCHANGED <<dr_vars, dp_vars, lk_vars, api_vars, in_vars, rdr_vars, ext2_vars>>

call_new_disposed(status_info, key_hash) ==
  /\ dd_call' = [fn |-> "new_disposed", status_info |-> status_info,
                 key_hash |-> key_hash]
  /\ dd' = DDSData_new_disposed(status_info, key_hash)
  /\ dd_prev_call' = dd_call
  /\ dd_prev' = dd
  /\ UNCHANGED <<dr_vars, dp_vars, lk_vars, api_vars, in_vars, rdr_vars, ext2_vars>>

call_from(data, ser_ok, source_timestamp) ==
  /\ dd_call' = [fn |-> "from", data |-> data, ser_ok |-> ser_ok,
                 source_timestamp |-> source_timestamp]
  /\ dd' = DDSData_from(data, ser_ok, source_timestamp)
  /\ dd_prev_call' = dd_call
  /\ dd_prev' = dd
  /\ UNCHANGED <<dr_vars, dp_vars, lk_vars, api_vars, in_vars, rdr_vars, ext2_vars>>

call_from_dispose(key, source_timestamp) ==
  /\ dd_call' = [fn |-> "from_dispose", key |-> key,
                 source_timestamp |-> source_timestamp]
  /\ dd' = DDSData_from_dispose(key, source_timestamp)
  /\ dd_prev_call' = dd_call
  /\ dd_prev' = dd
  /\ UNCHANGED <<dr_vars, dp_vars, lk_vars, api_vars, in_vars, rdr_vars, ext2_vars>>

DdNext ==
  \/ \E p \in SerializedPayloads : call_new(p)
  \/ \E si \in OptStatusInfos, kh \in OptKeyHashes : call_new_disposed(si, kh)
  \/ \E d \in UserData, ok \in BOOLEAN, ts \in OptTimestamps : call_from(d, ok, ts)
  \/ \E k \in Keys, ts \in OptTimestamps : call_from_dispose(k, ts)

\* ====================== DomainParticipant_Inner::new: sockets and listeners
\* participant_id is a u16 in the code; here it has IdBits bits, so that the
\* scan reaches the end of its range.
IdBits == 2

IdModulus == 2 ^ IdBits

ParticipantIds == 0..(IdModulus - 1)

\* What UDPListener::try_bind followed by join_multicast can come to.
MulticastOutcomes == {"bind_failed", "join_failed", "joined"}

InInit ==
  /\ in_pc = "call"
  /\ participant_id = 0
  /\ spdp_taken = {}
  /\ listeners = {}
  /\ in_env = [build |-> "unset", discovery_multicast |-> "untried",
               user_multicast |-> "untried", user_unicast |-> "untried",
               spawn |-> "untried"]
  /\ in_result = "none"

\* The call of DomainParticipant_Inner::new: the SPDP unicast ports other
\* processes hold at that time, and whether the build checks integer overflow.
Inner_new_call ==
  /\ in_pc = "call"
  /\ spdp_taken' \in SUBSET ParticipantIds
  /\ \E build \in {"debug", "release"} : in_env' = [in_env EXCEPT !.build = build]
  /\ in_pc' = "discovery_multicast"
  /\ UNCHANGED <<participant_id, listeners, in_result>>
  /\ UNCHANGED <<dr_vars, dp_vars, lk_vars, api_vars, dd_vars, rdr_vars, ext2_vars>>

\* A multicast listener that is kept although the group could not be joined.
multicast_listeners_keep_unjoined(outcome, token) ==
  IF outcome \in {"joined", "join_failed"} THEN {token} ELSE {}

\* The match on a multicast try_bind: the listener is inserted only when the
\* socket was bound and the group joined; each failure is logged and passed.
multicast_listeners(outcome, token) ==
  IF outcome = "joined" THEN {token} ELSE {}

\* The discovery multicast listener, then `let mut participant_id = 0`.
bind_discovery_multicast ==
  /\ in_pc = "discovery_multicast"
  /\ \E outcome \in MulticastOutcomes :
       /\ in_env' = [in_env EXCEPT !.discovery_multicast = outcome]
       /\ listeners' = listeners \cup
                         multicast_listeners(outcome, "DISCOVERY_MUL_LISTENER_TOKEN")
  /\ participant_id' = 0
  /\ in_pc' = "scan"
  /\ UNCHANGED <<spdp_taken, in_result>>
  /\ UNCHANGED <<dr_vars, dp_vars, lk_vars, api_vars, dd_vars, rdr_vars, ext2_vars>>

\* UDPListener::try_bind on the SPDP unicast port of (domain_id, participant_id).
try_bind_spdp_unicast(id) == id \notin spdp_taken

\* One turn of `while discovery_listener.is_none()`: a bound socket ends the
\* loop; otherwise participant_id += 1, which at the top of the integer's range
\* panics in a build with overflow checks and wraps to 0 in one without.
scan_participant_id ==
  /\ in_pc = "scan"
  /\ IF try_bind_spdp_unicast(participant_id)
       THEN /\ in_pc' = "user_multicast"
            /\ UNCHANGED <<participant_id, in_result>>
       ELSE IF participant_id + 1 < IdModulus
         THEN /\ participant_id' = participant_id + 1
              /\ UNCHANGED <<in_pc, in_result>>
         ELSE IF in_env.build = "debug"
           THEN /\ in_pc' = "done"
                /\ in_result' = "panic"
                /\ UNCHANGED participant_id
           ELSE /\ participant_id' = (participant_id + 1) % IdModulus
                /\ UNCHANGED <<in_pc, in_result>>
  /\ UNCHANGED <<spdp_taken, listeners, in_env>>
  /\ UNCHANGED <<dr_vars, dp_vars, lk_vars, api_vars, dd_vars, rdr_vars, ext2_vars>>

\* The user-traffic multicast listener.
bind_user_multicast ==
  /\ in_pc = "user_multicast"
  /\ \E outcome \in MulticastOutcomes :
       /\ in_env' = [in_env EXCEPT !.user_multicast = outcome]
       /\ listeners' = listeners \cup
                         multicast_listeners(outcome, "USER_TRAFFIC_MUL_LISTENER_TOKEN")
  /\ in_pc' = "user_unicast"
  /\ UNCHANGED <<participant_id, spdp_taken, in_result>>
  /\ UNCHANGED <<dr_vars, dp_vars, lk_vars, api_vars, dd_vars, rdr_vars, ext2_vars>>

\* UDPListener::new on the user-traffic unicast port of the selected
\* participant_id, then the two unicast listeners are inserted.  new returns a
\* UDPListener, not an Option: with the port in use the call cannot hand back a
\* failure, and the constructing thread panics.
bind_user_unicast ==
  /\ in_pc = "user_unicast"
  /\ \E port \in {"free", "taken"} :
       /\ in_env' = [in_env EXCEPT !.user_unicast = port]
       /\ IF port = "free"
            THEN /\ listeners' = listeners \cup
                       {"DISCOVERY_LISTENER_TOKEN", "USER_TRAFFIC_LISTENER_TOKEN"}
                 /\ in_pc' = "spawn"
                 /\ UNCHANGED in_result
            ELSE /\ in_pc' = "done"
                 /\ in_result' = "panic"
                 /\ UNCHANGED listeners
  /\ UNCHANGED <<participant_id, spdp_taken>>
  /\ UNCHANGED <<dr_vars, dp_vars, lk_vars, api_vars, dd_vars, rdr_vars, ext2_vars>>

\* DPEventLoop::new takes the listeners; the event-loop thread is spawned, or
\* `?` returns the spawn error.
spawn_event_loop ==
  /\ in_pc = "spawn"
  /\ \E spawned \in BOOLEAN :
       /\ in_env' = [in_env EXCEPT !.spawn = IF spawned THEN "spawned" ELSE "failed"]
       /\ in_result' = IF spawned THEN "Ok" ELSE "Err"
  /\ in_pc' = "done"
  /\ UNCHANGED <<participant_id, spdp_taken, listeners>>
  /\ UNCHANGED <<dr_vars, dp_vars, lk_vars, api_vars, dd_vars, rdr_vars, ext2_vars>>

InNext ==
  \/ Inner_new_call
  \/ bind_discovery_multicast
  \/ scan_participant_id
  \/ bind_user_multicast
  \/ bind_user_unicast
  \/ spawn_event_loop

\* =================================================== DataReader: new and drop
\* DataReaders of one participant, by the GUID in their entity_attributes.
MaxReaders == 2

ReaderGuids == 1..MaxReaders

RdrInit ==
  /\ readers = [g \in ReaderGuids |-> "none"]
  /\ rm_log = <<>>

\* DataReader::new on a Subscriber of a constructed participant: Ok when
\* subscriber.get_participant() gives the participant, PreconditionNotMet (and
\* no DataReader) when it is gone.
Subscriber_create_datareader(g) ==
  /\ new_result = "Ok"
  /\ readers[g] = "none"
  /\ readers' = [readers EXCEPT ![g] = IF Weak_upgrade THEN "alive" ELSE "none"]
  /\ weak_last' = [op |-> "DataReader_new", upgraded |-> Weak_upgrade,
                   result |-> Weak_result("DataReader_new", Weak_upgrade)]
  /\ UNCHANGED <<rm_log, weak_handles, upgrades>>
  /\ UNCHANGED <<dr_vars, dp_vars, lk_vars, dd_vars, in_vars, ext2_vars>>

\* Drop for DataReader: one send of REMOVE_LOCAL_READER { guid: self.get_guid() }
\* on its clone of the discovery command sender.  Ok is passed over, an error
\* (the receiver is gone) is logged; a full channel blocks the sender.
DataReader_drop(g) ==
  /\ readers[g] = "alive"
  /\ readers' = [readers EXCEPT ![g] = "dropped"]
  /\ IF cmd_chan.receiver
       THEN /\ Len(cmd_chan.msgs) < DiscoveryCommandCap
            /\ cmd_chan' = [cmd_chan EXCEPT !.msgs = Append(@, REMOVE_LOCAL_READER(g))]
            /\ rm_log' = Append(rm_log, [reader |-> g, ok |-> TRUE,
                                         command |-> REMOVE_LOCAL_READER(g)])
       ELSE /\ cmd_chan' = cmd_chan
            /\ rm_log' = Append(rm_log, [reader |-> g, ok |-> FALSE,
                                         command |-> REMOVE_LOCAL_READER(g)])
  /\ UNCHANGED <<new_pc, new_result, strong, ev, stop_signals, disc, reported,
                 started_chan, join_chan, drop_pc, stop_disc_ok, caches>>
  /\ UNCHANGED <<dr_vars, lk_vars, api_vars, dd_vars, in_vars, ext2_vars>>

RdrNext ==
  \/ \E g \in ReaderGuids : Subscriber_create_datareader(g)
  \/ \E g \in ReaderGuids : DataReader_drop(g)

\* ================================== DataReader: read_instance / take_instance
SelectByKey == {"This", "Next"}

\* instance_key: Option<D::K>.
InstanceKeys == {None} \cup {Some(k) : k \in Keys}

InstInit ==
  /\ inst_call = [instance_key |-> None, this_or_next |-> "This", key |-> None]
  /\ next_sample = None

\* DataSampleCache::get_next_key(&k): the next key after k in the order of the
\* keys of the datasample map.
get_next_key(ds, k) ==
  LET after == {x \in DOMAIN ds : x > k}
  IN IF after = {} THEN None
     ELSE Some(CHOOSE x \in after : \A y \in after : x <= y)

\* datasamples.keys().min()
keys_min(ds) ==
  IF DOMAIN ds = {} THEN None
  ELSE Some(CHOOSE x \in DOMAIN ds : \A y \in DOMAIN ds : x <= y)

\* An inference that takes the instance asked for also under Next.
infer_key_ignoring_next(ds, instance_key, this_or_next) ==
  IF instance_key # None THEN instance_key ELSE keys_min(ds)

\* "Infer the key" of read_instance / take_instance: the key operated on, or
\* None where the code returns the empty result at once.
infer_key(ds, instance_key, this_or_next) ==
  IF instance_key # None
    THEN IF this_or_next = "This"
           THEN instance_key
           ELSE get_next_key(ds, instance_key[1])
    ELSE keys_min(ds)

\* The places of one instance's vector, front to back; none when the map has
\* no entry for the key (get_datasamples_mut / get_mut return None).
instance_order(ds, key) ==
  IF key \in DOMAIN ds
    THEN [i \in 1..Len(ds[key]) |-> [key |-> key, pos |-> i]]
    ELSE <<>>

\* The loop of read_instance over the instance's vector.
read_instance_loop(ds, key, max_samples, read_condition) ==
  LET picked == scan_loop(ds, instance_order(ds, key), 1, 0, max_samples,
                          read_condition)
  IN [result |-> [i \in 1..Len(picked) |->
                    [ds[picked[i].key][picked[i].pos] EXCEPT !.sample_state = "Read"]],
      ds |-> [k \in DOMAIN ds |->
                [i \in 1..Len(ds[k]) |->
                   IF InSeq([key |-> k, pos |-> i], picked)
                     THEN [ds[k][i] EXCEPT !.sample_state = "Read"]
                     ELSE ds[k][i]]]]

\* The loop of take_instance over the instance's vector.
take_instance_loop(ds, key, max_samples, read_condition) ==
  LET picked == scan_loop(ds, instance_order(ds, key), 1, 0, max_samples,
                          read_condition)
  IN [result |-> [i \in 1..Len(picked) |->
                    [ds[picked[i].key][picked[i].pos] EXCEPT !.sample_state = "Read"]],
      ds |-> [k \in DOMAIN ds |-> remove_places(ds[k], k, picked, 1)]]

\* DataReader::read_instance(max_samples, read_condition, instance_key,
\* this_or_next).  The early returns leave the notification channel as it is.
read_instance(max_samples, read_condition, instance_key, this_or_next) ==
  /\ dr_created
  /\ ~dr_panicked
  /\ LET f == get_datasamples_from_cache(topic_cache, latest_instant, clock,
                                         datasamples, ingested)
         key == IF f.panicked THEN None
                ELSE infer_key(f.ds, instance_key, this_or_next)
         r == IF key = None
                THEN [result |-> <<>>, ds |-> f.ds]
                ELSE read_instance_loop(f.ds, key[1], max_samples, read_condition)
     IN /\ latest_instant' = f.latest
        /\ ingested' = f.count
        /\ datasamples' = r.ds
        /\ dr_panicked' = f.panicked
        /\ UNCHANGED error_bin
        /\ last' = [op |-> IF f.panicked THEN "panic" ELSE "read_instance",
                    max |-> max_samples,
                    cond |-> read_condition, result |-> r.result,
                    fetched |-> f.fetched]
        /\ inst_call' = [instance_key |-> instance_key,
                         this_or_next |-> this_or_next, key |-> key]
        /\ UNCHANGED next_sample
        /\ notif' = IF key = None THEN notif ELSE 0
  /\ UNCHANGED <<clock, topic_cache, dr_birth, rd_pc, co_pc>>
  /\ UNCHANGED dp_vars
  /\ UNCHANGED <<lk_vars, api_vars, dd_vars, in_vars, rdr_vars,
                 port_vars, wire_vars, guid_vars, rr_vars, rw_vars>>

\* DataReader::take_instance(max_samples, read_condition, instance_key,
\* this_or_next).
take_instance(max_samples, read_condition, instance_key, this_or_next) ==
  /\ dr_created
  /\ ~dr_panicked
  /\ LET f == get_datasamples_from_cache(topic_cache, latest_instant, clock,
                                         datasamples, ingested)
         key == IF f.panicked THEN None
                ELSE infer_key(f.ds, instance_key, this_or_next)
         r == IF key = None
                THEN [result |-> <<>>, ds |-> f.ds]
                ELSE take_instance_loop(f.ds, key[1], max_samples, read_condition)
     IN /\ latest_instant' = f.latest
        /\ ingested' = f.count
        /\ datasamples' = r.ds
        /\ dr_panicked' = f.panicked
        /\ UNCHANGED error_bin
        /\ last' = [op |-> IF f.panicked THEN "panic" ELSE "take_instance",
                    max |-> max_samples,
                    cond |-> read_condition, result |-> r.result,
                    fetched |-> f.fetched]
        /\ inst_call' = [instance_key |-> instance_key,
                         this_or_next |-> this_or_next, key |-> key]
        /\ UNCHANGED next_sample
        /\ notif' = IF key = None THEN notif ELSE 0
  /\ UNCHANGED <<clock, topic_cache, dr_birth, rd_pc, co_pc>>
  /\ UNCHANGED dp_vars
  /\ UNCHANGED <<lk_vars, api_vars, dd_vars, in_vars, rdr_vars,
                 port_vars, wire_vars, guid_vars, rr_vars, rw_vars>>

\* Vec::pop: the last element, or None for an empty vector.
Vec_pop(vec) == IF vec = <<>> THEN None ELSE Some(vec[Len(vec)])

\* DataReader::read_next_sample: read_as_obj(1, ReadCondition::not_read())?,
\* then ds.pop().
read_next_sample ==
  /\ dr_created
  /\ ~dr_panicked
  /\ LET f == get_datasamples_from_cache(topic_cache, latest_instant, clock,
                                         datasamples, ingested)
         r == IF f.panicked
                THEN [result |-> <<>>, ds |-> f.ds]
                ELSE read_loop(f.ds, 1, ReadCondition_not_read)
     IN /\ latest_instant' = f.latest
        /\ ingested' = f.count
        /\ datasamples' = r.ds
        /\ dr_panicked' = f.panicked
        /\ last' = [op |-> IF f.panicked THEN "panic" ELSE "read_next_sample",
                    max |-> 1, cond |-> ReadCondition_not_read,
                    result |-> r.result, fetched |-> f.fetched]
        /\ next_sample' = Vec_pop(r.result)
        /\ notif' = IF f.panicked THEN notif ELSE 0
  /\ UNCHANGED <<clock, topic_cache, dr_birth, rd_pc, co_pc, error_bin, inst_call>>
  /\ UNCHANGED dp_vars
  /\ UNCHANGED <<lk_vars, api_vars, dd_vars, in_vars, rdr_vars,
                 port_vars, wire_vars, guid_vars, rr_vars, rw_vars>>

\* DataReader::take_next_sample: take_as_obj(1, ReadCondition::not_read())?,
\* then ds.pop().
take_next_sample ==
  /\ dr_created
  /\ ~dr_panicked
  /\ LET f == get_datasamples_from_cache(topic_cache, latest_instant, clock,
                                         datasamples, ingested)
         r == IF f.panicked
                THEN [result |-> <<>>, ds |-> f.ds]
                ELSE take_loop(f.ds, 1, ReadCondition_not_read)
     IN /\ latest_instant' = f.latest
        /\ ingested' = f.count
        /\ datasamples' = r.ds
        /\ dr_panicked' = f.panicked
        /\ last' = [op |-> IF f.panicked THEN "panic" ELSE "take_next_sample",
                    max |-> 1, cond |-> ReadCondition_not_read,
                    result |-> r.result, fetched |-> f.fetched]
        /\ next_sample' = Vec_pop(r.result)
        /\ notif' = IF f.panicked THEN notif ELSE 0
  /\ UNCHANGED <<clock, topic_cache, dr_birth, rd_pc, co_pc, error_bin, inst_call>>
  /\ UNCHANGED dp_vars
  /\ UNCHANGED <<lk_vars, api_vars, dd_vars, in_vars, rdr_vars,
                 port_vars, wire_vars, guid_vars, rr_vars, rw_vars>>

\* The DATA messages a sample is built from: a payload DA::from_bytes decodes,
\* or a dispose.
InstInputs ==
  { d \in DataInputs : d.shape.payload = "ok" \/ d.shape.kind = "NOT_ALIVE_DISPOSED" }

\* (instance_key, this_or_next) as callers pass them.  this_or_next is not looked
\* at when instance_key is None, so None comes with This alone.
InstanceSelections ==
  {<<None, "This">>} \cup {<<Some(k), t>> : k \in Keys, t \in SelectByKey}

\* The DataReader under read_instance and take_instance.
InstNext ==
  \/ DataReader_new
  \/ \E d \in InstInputs : handle_data_msg(d.key, d.shape)
  \/ \E m \in MaxSamplesChoices, c \in ReadConditions, s \in InstanceSelections :
        read_instance(m, c, s[1], s[2])
  \/ \E m \in MaxSamplesChoices, c \in ReadConditions, s \in InstanceSelections :
        take_instance(m, c, s[1], s[2])

\* The DataReader under all four calls, with DATA that carry a value.
OrderInputs == { d \in DataInputs : d.shape.payload = "ok" }

OrderNext ==
  \/ DataReader_new
  \/ \E d \in OrderInputs : handle_data_msg(d.key, d.shape)
  \/ \E m \in {1, MaxChanges}, c \in ReadConditions : read_as_obj(m, c)
  \/ \E m \in {1, MaxChanges}, c \in ReadConditions : take_as_obj(m, c)
  \/ \E m \in {1, MaxChanges}, c \in ReadConditions, s \in InstanceSelections :
        read_instance(m, c, s[1], s[2])
  \/ \E m \in {1, MaxChanges}, c \in ReadConditions, s \in InstanceSelections :
        take_instance(m, c, s[1], s[2])

\* The DataReader under take and take_instance, with a read that leaves samples
\* marked Read behind.
TakeNext ==
  \/ DataReader_new
  \/ \E k \in Keys : handle_data_msg(k, [kind |-> "ALIVE", payload |-> "ok"])
  \/ read_as_obj(1, ReadCondition_any)
  \/ \E m \in {1, MaxChanges}, c \in ReadConditions : take_as_obj(m, c)
  \/ \E m \in {1, MaxChanges}, c \in ReadConditions, k \in Keys :
        take_instance(m, c, Some(k), "This")

\* The DataReader under read, read_instance and the two next-sample calls.
NextSampleNext ==
  \/ DataReader_new
  \/ \E k \in Keys : handle_data_msg(k, [kind |-> "ALIVE", payload |-> "ok"])
  \/ read_as_obj(1, ReadCondition_any)
  \/ \E k \in Keys : read_instance(MaxChanges, ReadCondition_any, Some(k), "This")
  \/ read_next_sample
  \/ take_next_sample

\* ================================ DomainParticipant_Inner::new: port numbers
\* domain_id and participant_id as the ports are specified for.
DomainIds == 0..231

TypicalParticipantIds == 0..119

\* network::constant: the well-known ports of a domain and a participant.
get_spdp_well_known_multicast_port(domain_id) == 7400 + 250 * domain_id

get_spdp_well_known_unicast_port(domain_id, id) ==
  7400 + 250 * domain_id + 10 + 2 * id

get_user_traffic_multicast_port(domain_id) == 7400 + 250 * domain_id + 1

get_user_traffic_unicast_port(domain_id, id) ==
  7400 + 250 * domain_id + 11 + 2 * id

\* A participant that opens its user-traffic unicast socket on the SPDP
\* unicast port.
listener_ports_one_unicast(domain_id, id) ==
  [spdp_multicast |-> get_spdp_well_known_multicast_port(domain_id),
   spdp_unicast |-> get_spdp_well_known_unicast_port(domain_id, id),
   user_multicast |-> get_user_traffic_multicast_port(domain_id),
   user_unicast |-> get_spdp_well_known_unicast_port(domain_id, id)]

\* The port each of the four listeners of DomainParticipant_Inner::new is
\* opened on.
listener_ports(domain_id, id) ==
  [spdp_multicast |-> get_spdp_well_known_multicast_port(domain_id),
   spdp_unicast |-> get_spdp_well_known_unicast_port(domain_id, id),
   user_multicast |-> get_user_traffic_multicast_port(domain_id),
   user_unicast |-> get_user_traffic_unicast_port(domain_id, id)]

PortKinds == {"spdp_multicast", "spdp_unicast", "user_multicast", "user_unicast"}

MulticastKinds == {"spdp_multicast", "user_multicast"}

PortInit == pt_call = [op |-> "none"]

\* DomainParticipant_Inner::new(domain_id, ..) in every participant of one
\* domain, each with its participant_id: the ports of their listeners.
open_listeners ==
  /\ pt_call.op = "none"
  /\ \E domain_id \in DomainIds :
       pt_call' = [op |-> "ports", domain_id |-> domain_id,
                   ports |-> [id \in TypicalParticipantIds |->
                                listener_ports(domain_id, id)]]
  /\ UNCHANGED <<dr_vars, dp_vars, lk_vars, api_vars, dd_vars, in_vars, rdr_vars,
                 inst_vars, wire_vars, guid_vars, rr_vars, rw_vars>>

PortNext == open_listeners

\* ======================================== inline QoS: KeyHash and StatusInfo
\* on the wire.  Octets are 0..255; a Vec<u8> is a sequence of them.
\* size_of::<u128>(): the octets of a KeyHash.
KeyHashLen == 16

\* A u128 is written by its 16 octets, most significant first.  The keys taken:
\* those with at most two octets set, each to 1 or to 255.
U128s ==
  { [i \in 1..KeyHashLen |-> IF i = a THEN x ELSE IF i = b THEN y ELSE 0] :
      a \in 1..KeyHashLen, b \in 1..KeyHashLen, x \in {0, 1, 255}, y \in {0, 1, 255} }

U128_zero == [i \in 1..KeyHashLen |-> 0]

ByteOrders == {"BigEndian", "LittleEndian"}

\* RepresentationIdentifier: the four CDR ones, and one for all the others.
RepresentationIdentifiers == {"CDR_BE", "CDR_LE", "PL_CDR_BE", "PL_CDR_LE", "other"}

Reverse(seq) == [i \in 1..Len(seq) |-> seq[Len(seq) + 1 - i]]

Ok(v) == [ok |-> TRUE, value |-> v]

Err(e) == [ok |-> FALSE, value |-> e]

\* cdr_serializer::to_bytes::<KeyHash, BO>: the u128 in the byte order BO.
KeyHash_into_cdr_bytes(kh, bo) ==
  Ok(IF bo = "BigEndian" THEN kh.key ELSE Reverse(kh.key))

\* ReadBytesExt::read_u128::<BO> on a Cursor at position 0.
read_u128(bytes, bo) ==
  IF Len(bytes) < KeyHashLen THEN Err("IOError")
  ELSE LET first == SubSeq(bytes, 1, KeyHashLen)
       IN Ok(IF bo = "BigEndian" THEN first ELSE Reverse(first))

\* A from_cdr_bytes that reads every identifier's octets big-endian.
KeyHash_from_cdr_bytes_big_endian(bytes, representation_id) ==
  IF representation_id = "other" THEN Ok([key |-> U128_zero])
  ELSE LET r == read_u128(bytes, "BigEndian")
       IN IF r.ok THEN Ok([key |-> r.value]) ELSE r

\* KeyHash::from_cdr_bytes.
KeyHash_from_cdr_bytes(bytes, representation_id) ==
  IF representation_id \in {"CDR_BE", "PL_CDR_BE"}
    THEN LET r == read_u128(bytes, "BigEndian")
         IN IF r.ok THEN Ok([key |-> r.value]) ELSE r
  ELSE IF representation_id \in {"CDR_LE", "PL_CDR_LE"}
    THEN LET r == read_u128(bytes, "LittleEndian")
         IN IF r.ok THEN Ok([key |-> r.value]) ELSE r
  ELSE Ok([key |-> U128_zero])

\* #[repr(u8)] enum StatusInfoEnum with Disposed and Unregistered exchanged.
StatusInfoEnum_repr_exchanged(e) ==
  CASE e = "Disposed" -> 2
    [] e = "Unregistered" -> 1
    [] e = "Filtered" -> 4

\* #[repr(u8)] enum StatusInfoEnum: the bit of each flag.
StatusInfoEnum_repr(e) ==
  CASE e = "Disposed" -> 1
    [] e = "Unregistered" -> 2
    [] e = "Filtered" -> 4

\* BitFlags::bits: the sum of the bits of the flags set.
RECURSIVE BitFlags_bits(_)
BitFlags_bits(si) ==
  IF si = {} THEN 0
  ELSE LET e == CHOOSE x \in si : TRUE
       IN StatusInfoEnum_repr(e) + BitFlags_bits(si \ {e})

\* BitFlags::from_bits: the flags of an octet; none for an octet with a bit
\* that is no flag.
BitFlags_from_bits(bits) ==
  LET found == {si \in StatusInfos : BitFlags_bits(si) = bits}
  IN IF found = {} THEN None ELSE Some(CHOOSE si \in found : TRUE)

\* struct StatusInfo { em: [u8; 3], si: BitFlags<StatusInfoEnum> }.
StatusInfo_of(si) == [em |-> <<0, 0, 0>>, si |-> si]

\* to_bytes::<StatusInfo, BO>: four fields of one octet each, in the order of
\* the struct.
StatusInfo_into_cdr_bytes(status_info, bo) ==
  Ok(status_info.em \o <<BitFlags_bits(status_info.si)>>)

\* CDRDeserializerAdapter::from_bytes for StatusInfo, CDR_LE or CDR_BE.
StatusInfo_from_cdr_bytes(bytes, representation_id) ==
  IF Len(bytes) < 4 THEN Err("IOError")
  ELSE LET si == BitFlags_from_bits(bytes[4])
       IN IF si = None THEN Err("Message")
          ELSE Ok([em |-> SubSeq(bytes, 1, 3), si |-> si[1]])

\* The octets handed to from_cdr_bytes: the first n of the encoding, or the
\* encoding followed by zeros up to n octets.
wire_bytes(encoded, n) ==
  IF n <= Len(encoded) THEN SubSeq(encoded, 1, n)
  ELSE encoded \o [i \in 1..(n - Len(encoded)) |-> 0]

WireInit == wire_call = [fn |-> "none"]

\* KeyHash { key }.into_cdr_bytes::<BO>(), then KeyHash::from_cdr_bytes of n of
\* its octets under a representation identifier.
KeyHash_wire ==
  /\ wire_call.fn = "none"
  /\ \E key \in U128s, bo \in ByteOrders,
        n \in {0, KeyHashLen - 1, KeyHashLen, KeyHashLen + 1},
        representation_id \in RepresentationIdentifiers :
       LET encoded == KeyHash_into_cdr_bytes([key |-> key], bo).value
           bytes == wire_bytes(encoded, n)
       IN wire_call' = [fn |-> "KeyHash", value |-> [key |-> key], bo |-> bo,
                        encoded |-> encoded, bytes |-> bytes,
                        representation_id |-> representation_id,
                        decoded |-> KeyHash_from_cdr_bytes(bytes, representation_id)]
  /\ UNCHANGED <<dr_vars, dp_vars, lk_vars, api_vars, dd_vars, in_vars, rdr_vars,
                 inst_vars, port_vars, guid_vars, rr_vars, rw_vars>>

\* StatusInfo.into_cdr_bytes::<BO>(), then StatusInfo::from_cdr_bytes of n of
\* its octets.
StatusInfo_wire ==
  /\ wire_call.fn = "none"
  /\ \E si \in StatusInfos, bo \in ByteOrders, n \in {0, 3, 4},
        representation_id \in {"CDR_BE", "CDR_LE"} :
       LET encoded == StatusInfo_into_cdr_bytes(StatusInfo_of(si), bo).value
           bytes == wire_bytes(encoded, n)
       IN wire_call' = [fn |-> "StatusInfo", value |-> StatusInfo_of(si), bo |-> bo,
                        encoded |-> encoded, bytes |-> bytes,
                        representation_id |-> representation_id,
                        decoded |-> StatusInfo_from_cdr_bytes(bytes, representation_id)]
  /\ UNCHANGED <<dr_vars, dp_vars, lk_vars, api_vars, dd_vars, in_vars, rdr_vars,
                 inst_vars, port_vars, guid_vars, rr_vars, rw_vars>>

WireNext == KeyHash_wire \/ StatusInfo_wire

\* ============================================== the participant's GUID
\* GUIDs GUID::new_particiapnt_guid() can generate are 1..MaxGuid; 0 is no GUID.
MaxGuid == 3

Guids == 1..MaxGuid

GuidInit ==
  /\ new_guid = 0
  /\ my_guid = 0
  /\ domain_info = [domain_participant_guid |-> 0]
  /\ guid_strong = 0
  /\ weaks = <<>>
  /\ guid_last = [on |-> "none", guid |-> 0]

\* DomainParticipant_Inner::new: new_guid goes into DomainInfo, which
\* DPEventLoop::new takes, and into the field my_guid.  The first
\* DomainParticipant handle wraps the result.
Inner_new_guid ==
  /\ new_guid = 0
  /\ \E g \in Guids :
       /\ new_guid' = g
       /\ domain_info' = [domain_participant_guid |-> g]
       /\ my_guid' = g
  /\ guid_strong' = 1
  /\ UNCHANGED <<weaks, guid_last>>
  /\ UNCHANGED <<dr_vars, dp_vars, lk_vars, api_vars, dd_vars, in_vars, rdr_vars,
                 inst_vars, port_vars, wire_vars, rr_vars, rw_vars>>

\* RTPSEntity::get_guid for DomainParticipant_Inner; DomainParticipant and
\* DomainParticipant_Disc lock and delegate to it.
Inner_get_guid == my_guid

\* A weak handle that caches no GUID (GUID 0).
DomainParticipantWeak_new_no_guid(guid) == [guid |-> 0]

\* DomainParticipantWeak::new(dp, guid).
DomainParticipantWeak_new(guid) == [guid |-> guid]

\* #[derive(Clone)] on DomainParticipant: one more handle on the same Arc.
DomainParticipant_clone ==
  /\ guid_strong > 0
  /\ guid_strong < MaxHandles
  /\ guid_strong' = guid_strong + 1
  /\ UNCHANGED <<new_guid, my_guid, domain_info, weaks, guid_last>>
  /\ UNCHANGED <<dr_vars, dp_vars, lk_vars, api_vars, dd_vars, in_vars, rdr_vars,
                 inst_vars, port_vars, wire_vars, rr_vars, rw_vars>>

\* A DomainParticipant handle goes out of scope.
DomainParticipant_drop ==
  /\ guid_strong > 0
  /\ guid_strong' = guid_strong - 1
  /\ UNCHANGED <<new_guid, my_guid, domain_info, weaks, guid_last>>
  /\ UNCHANGED <<dr_vars, dp_vars, lk_vars, api_vars, dd_vars, in_vars, rdr_vars,
                 inst_vars, port_vars, wire_vars, rr_vars, rw_vars>>

\* DomainParticipant::weak_clone: DomainParticipantWeak::new(self.clone(),
\* self.get_guid()); the clone passed in is dropped when new returns.
DomainParticipant_weak_clone ==
  /\ guid_strong > 0
  /\ Len(weaks) < MaxWeaks
  /\ weaks' = Append(weaks, DomainParticipantWeak_new(Inner_get_guid))
  /\ UNCHANGED <<new_guid, my_guid, domain_info, guid_strong, guid_last>>
  /\ UNCHANGED <<dr_vars, dp_vars, lk_vars, api_vars, dd_vars, in_vars, rdr_vars,
                 inst_vars, port_vars, wire_vars, rr_vars, rw_vars>>

\* #[derive(Clone)] on DomainParticipantWeak.
DomainParticipantWeak_clone(i) ==
  /\ i \in 1..Len(weaks)
  /\ Len(weaks) < MaxWeaks
  /\ weaks' = Append(weaks, weaks[i])
  /\ UNCHANGED <<new_guid, my_guid, domain_info, guid_strong, guid_last>>
  /\ UNCHANGED <<dr_vars, dp_vars, lk_vars, api_vars, dd_vars, in_vars, rdr_vars,
                 inst_vars, port_vars, wire_vars, rr_vars, rw_vars>>

\* get_guid on a DomainParticipant, on its DomainParticipant_Disc or on its
\* DomainParticipant_Inner.
get_guid(on) ==
  /\ guid_strong > 0
  /\ guid_last' = [on |-> on, guid |-> Inner_get_guid]
  /\ UNCHANGED <<new_guid, my_guid, domain_info, guid_strong, weaks>>
  /\ UNCHANGED <<dr_vars, dp_vars, lk_vars, api_vars, dd_vars, in_vars, rdr_vars,
                 inst_vars, port_vars, wire_vars, rr_vars, rw_vars>>

\* get_guid on a DomainParticipantWeak: the cached GUID, whether the
\* participant still lives or not.
Weak_get_guid(i) ==
  /\ i \in 1..Len(weaks)
  /\ guid_last' = [on |-> "DomainParticipantWeak", guid |-> weaks[i].guid]
  /\ UNCHANGED <<new_guid, my_guid, domain_info, guid_strong, weaks>>
  /\ UNCHANGED <<dr_vars, dp_vars, lk_vars, api_vars, dd_vars, in_vars, rdr_vars,
                 inst_vars, port_vars, wire_vars, rr_vars, rw_vars>>

GuidNext ==
  \/ Inner_new_guid
  \/ DomainParticipant_clone
  \/ DomainParticipant_drop
  \/ DomainParticipant_weak_clone
  \/ \E i \in 1..MaxWeaks : DomainParticipantWeak_clone(i)
  \/ \E on \in {"DomainParticipant", "DomainParticipant_Disc",
                "DomainParticipant_Inner"} : get_guid(on)
  \/ \E i \in 1..MaxWeaks : Weak_get_guid(i)

\* ======================================================= the RTPS Reader
\* Remote writers: their GUIDs.
Writers == {"W", "U"}

\* Sequence numbers a writer assigns: one per change the topic cache takes.
SequenceNumbers == 1..MaxChanges

NoData ==
  [writer |-> "none", sn |-> 0, matched |-> FALSE, fresh |-> FALSE,
   accepted |-> FALSE,
   cache_before |-> 0, cache_after |-> 0, notif_before |-> 0, notif_after |-> 0]

RrInit ==
  /\ matched_writers = {}
  /\ highest_sn_received = [w \in Writers |-> 0]
  /\ missing_samples = [w \in Writers |-> {}]
  /\ rx_log = <<>>
  /\ rx_last = NoData

\* Reader::matched_writer_add: a WriterProxy for the writer.
matched_writer_add(w) ==
  /\ w \notin matched_writers
  /\ matched_writers' = matched_writers \cup {w}
  /\ UNCHANGED <<highest_sn_received, missing_samples, rx_log, rx_last>>
  /\ UNCHANGED <<dr_vars, dp_vars, lk_vars, api_vars, dd_vars, in_vars, rdr_vars,
                 inst_vars, port_vars, wire_vars, guid_vars, rw_vars>>

\* A lookup that finds a WriterProxy for every writer.
matched_writer_lookup_any(w) == TRUE

\* Step 1 of "On DATA": the WriterProxy of the source GUID, if any.
matched_writer_lookup(w) == w \in matched_writers

\* A Reader that takes nothing at or below the highest sequence number it has.
accepts_above_highest(w, sn) == sn > highest_sn_received[w]

\* Step 2: the sample is new to the reader.
accepts(w, sn) == sn > highest_sn_received[w] \/ sn \in missing_samples[w]

\* "On DATA", steps 1 to 5, for a DATA of writer w with sequence number sn: the
\* Reader's variables, the topic cache and the notification channel after it.
on_data(w, sn, key, shape) ==
  IF matched_writer_lookup(w) /\ accepts(w, sn)
    THEN /\ add_change("remote", key, shape)
         /\ highest_sn_received' =
              [highest_sn_received EXCEPT ![w] = IF sn > @ THEN sn ELSE @]
         /\ missing_samples' = [missing_samples EXCEPT ![w] = @ \ {sn}]
         /\ rx_log' = Append(rx_log, [writer |-> w, sn |-> sn])
         /\ notif' = try_send_notification(notif)
         /\ rx_last' = [writer |-> w, sn |-> sn, matched |-> TRUE, fresh |-> TRUE,
                        accepted |-> TRUE,
                        cache_before |-> Len(topic_cache),
                        cache_after |-> Len(topic_cache) + 1,
                        notif_before |-> notif,
                        notif_after |-> try_send_notification(notif)]
    ELSE /\ UNCHANGED <<clock, topic_cache, notif, highest_sn_received,
                        missing_samples, rx_log>>
         /\ rx_last' = [writer |-> w, sn |-> sn, matched |-> matched_writer_lookup(w),
                        fresh |-> accepts(w, sn), accepted |-> FALSE,
                        cache_before |-> Len(topic_cache),
                        cache_after |-> Len(topic_cache),
                        notif_before |-> notif, notif_after |-> notif]

\* Reader::handle_data_msg for a DATA as it comes from the socket.
Reader_handle_data_msg(w, sn, key, shape) ==
  /\ on_data(w, sn, key, shape)
  /\ UNCHANGED matched_writers
  /\ last' = [NoCall EXCEPT !.op = "insert"]
  /\ UNCHANGED <<dr_birth, latest_instant, datasamples, ingested, error_bin, dr_panicked, rd_pc, co_pc>>
  /\ UNCHANGED <<dp_vars, lk_vars, api_vars, dd_vars, in_vars, rdr_vars,
                 inst_vars, port_vars, wire_vars, guid_vars, rw_vars>>

\* The instance of the change the writer publishes under a sequence number.
key_of(sn) == ((sn - 1) % MaxKey) + 1

MatchNext ==
  \/ DataReader_new
  \/ \E w \in Writers : matched_writer_add(w)
  \/ \E w \in Writers, sn \in SequenceNumbers :
       Reader_handle_data_msg(w, sn, key_of(sn), [kind |-> "ALIVE", payload |-> "ok"])
  \/ read_as_obj(MaxChanges, ReadCondition_any)

\* ============================================= reliable writer and reader
\* The counts of HEARTBEAT and ACKNACK grow with every datagram sent; the
\* handlers look only at whether a count is greater than the last one seen, and
\* a datagram carries that one fact as the field newer.
RwInit ==
  /\ highest_assigned = 0
  /\ unacked_changes = {}
  /\ send_list = {}
  /\ highest_acked_sn = 0
  /\ data_net = {}
  /\ hb_net = None
  /\ acknack_due = FALSE
  /\ an_net = None

\* What the reliable protocol leaves alone outside the writer, the reader and
\* the topic cache.
rw_frame ==
  /\ UNCHANGED <<dp_vars, lk_vars, api_vars, dd_vars, in_vars, rdr_vars,
                 inst_vars, port_vars, wire_vars, guid_vars>>
  /\ UNCHANGED <<dr_birth, latest_instant, datasamples, ingested, error_bin, dr_panicked, rd_pc, co_pc, last>>

\* The sequence numbers of writer w the Reader has put into the cache.
already_received(w) == { rx_log[i].sn : i \in { j \in 1..Len(rx_log) : rx_log[j].writer = w } }

\* On user write(change): the next sequence number, unacked for the reader, a
\* DATA send scheduled.
Writer_write ==
  /\ highest_assigned < MaxChanges
  /\ highest_assigned' = highest_assigned + 1
  /\ unacked_changes' = unacked_changes \cup {highest_assigned + 1}
  /\ send_list' = send_list \cup {highest_assigned + 1}
  /\ UNCHANGED <<highest_acked_sn, data_net, hb_net, acknack_due, an_net>>
  /\ UNCHANGED <<rr_vars, clock, topic_cache, notif>>
  /\ rw_frame

\* DATA transmission: one DATA per tick.
Writer_send_data(sn) ==
  /\ sn \in send_list
  /\ send_list' = send_list \ {sn}
  /\ data_net' = data_net \cup {sn}
  /\ UNCHANGED <<highest_assigned, unacked_changes, highest_acked_sn, hb_net,
                 acknack_due, an_net>>
  /\ UNCHANGED <<rr_vars, clock, topic_cache, notif>>
  /\ rw_frame

\* The transport loses a DATA datagram.
Net_drop_data(sn) ==
  /\ sn \in data_net
  /\ data_net' = data_net \ {sn}
  /\ UNCHANGED <<highest_assigned, unacked_changes, send_list, highest_acked_sn,
                 hb_net, acknack_due, an_net>>
  /\ UNCHANGED <<rr_vars, clock, topic_cache, notif>>
  /\ rw_frame

\* The transport hands a DATA datagram to the Reader.
Net_deliver_data(sn) ==
  /\ sn \in data_net
  /\ data_net' = data_net \ {sn}
  /\ on_data("W", sn, key_of(sn), [kind |-> "ALIVE", payload |-> "ok"])
  /\ UNCHANGED matched_writers
  /\ UNCHANGED <<highest_assigned, unacked_changes, send_list, highest_acked_sn,
                 hb_net, acknack_due, an_net>>
  /\ rw_frame

\* FinalFlag is set iff unacked_changes is empty for the reader.
HeartbeatFinalFlag == unacked_changes = {}

\* Periodic HEARTBEAT, with the next count.  One HEARTBEAT is in flight at a
\* time: a new one takes the place of one the Reader has seen.
Writer_heartbeat ==
  /\ IF hb_net = None THEN TRUE ELSE ~hb_net[1].newer
  /\ hb_net' = Some([first_sn |-> 1, last_sn |-> highest_assigned,
                     final |-> HeartbeatFinalFlag, newer |-> TRUE])
  /\ UNCHANGED <<highest_assigned, unacked_changes, send_list, highest_acked_sn,
                 data_net, acknack_due, an_net>>
  /\ UNCHANGED <<rr_vars, clock, topic_cache, notif>>
  /\ rw_frame

\* On HEARTBEAT.  A count not greater than the last seen is a replay and is
\* ignored; so is the HEARTBEAT of a writer without WriterProxy.  The datagram
\* taken stays in the transport as one that may come again.
Reader_on_heartbeat ==
  /\ hb_net # None
  /\ LET hb == hb_net[1] IN
       IF hb.newer /\ matched_writer_lookup("W")
         THEN LET missing == (hb.first_sn .. hb.last_sn) \ already_received("W") IN
                /\ missing_samples' = [missing_samples EXCEPT !["W"] = missing]
                /\ acknack_due' = (acknack_due \/ ~hb.final \/ missing # {})
                /\ hb_net' = Some([hb EXCEPT !.newer = FALSE])
         ELSE /\ hb_net' = None
              /\ UNCHANGED <<missing_samples, acknack_due>>
  /\ UNCHANGED <<matched_writers, highest_sn_received, rx_log, rx_last>>
  /\ UNCHANGED <<highest_assigned, unacked_changes, send_list, highest_acked_sn,
                 data_net, an_net>>
  /\ UNCHANGED <<clock, topic_cache, notif>>
  /\ rw_frame

\* The first sequence number of the writer the Reader has not received.
acknack_base == CHOOSE n \in 1..(MaxChanges + 1) :
                  /\ n \notin already_received("W")
                  /\ \A m \in 1..(n - 1) : m \in already_received("W")

\* The scheduled ACKNACK goes out: reader_sn_state {base, set}.
Reader_send_acknack ==
  /\ acknack_due
  /\ IF an_net = None THEN TRUE ELSE ~an_net[1].newer
  /\ acknack_due' = FALSE
  /\ an_net' = Some([base |-> acknack_base, set |-> missing_samples["W"],
                     newer |-> TRUE])
  /\ UNCHANGED <<highest_assigned, unacked_changes, send_list, highest_acked_sn,
                 data_net, hb_net>>
  /\ UNCHANGED <<rr_vars, clock, topic_cache, notif>>
  /\ rw_frame

\* The sequence numbers an ACKNACK acknowledges: those below base and those of
\* its bitmap whose bit is not set.
acknowledged(an) ==
  { sn \in SequenceNumbers :
      sn \notin an.set /\ (sn < an.base \/ \E m \in an.set : sn < m) }

\* On ACKNACK.  A count not greater than the last seen is ignored.
Writer_on_acknack ==
  /\ an_net # None
  /\ LET an == an_net[1] IN
       IF an.newer
         THEN /\ highest_acked_sn' = an.base - 1
              /\ send_list' = send_list \cup an.set
              /\ unacked_changes' = unacked_changes \ acknowledged(an)
              /\ an_net' = Some([an EXCEPT !.newer = FALSE])
         ELSE /\ an_net' = None
              /\ UNCHANGED <<highest_acked_sn, send_list, unacked_changes>>
  /\ UNCHANGED <<highest_assigned, data_net, hb_net, acknack_due>>
  /\ UNCHANGED <<rr_vars, clock, topic_cache, notif>>
  /\ rw_frame

\* Discovery matches the writer with the Reader.
match_writer == matched_writer_add("W")

ReliableNext ==
  \/ match_writer
  \/ Writer_write
  \/ \E sn \in SequenceNumbers : Writer_send_data(sn)
  \/ \E sn \in SequenceNumbers : Net_drop_data(sn)
  \/ \E sn \in SequenceNumbers : Net_deliver_data(sn)
  \/ Writer_heartbeat
  \/ Reader_on_heartbeat
  \/ Reader_send_acknack
  \/ Writer_on_acknack

\* The timers of writer and reader fire, datagrams that are not lost arrive,
\* and a DATA that is sent again and again is not lost every time.
ReliableFairness ==
  /\ \A sn \in SequenceNumbers : WF_vars(Writer_send_data(sn))
  /\ \A sn \in SequenceNumbers : SF_vars(Net_deliver_data(sn))
  /\ WF_vars(Writer_heartbeat)
  /\ WF_vars(Reader_on_heartbeat)
  /\ WF_vars(Reader_send_acknack)
  /\ WF_vars(Writer_on_acknack)

\* ------------------------------------ DataReader: the error_bin.bin dump
\* The working directory of the process: File::create("error_bin.bin") returns
\* Ok while the directory accepts the file and Err once it refuses it (read-only
\* or full file system, no permission).
error_bin_set(outcome) ==
  /\ error_bin # outcome
  /\ error_bin' = outcome
  /\ UNCHANGED <<clock, topic_cache, dr_birth, latest_instant, datasamples,
                 notif, last, ingested, rd_pc, co_pc, dr_panicked>>
  /\ UNCHANGED dp_vars
  /\ UNCHANGED ext_vars

DecodeNext ==
  \/ DataReader_new
  \/ \E d \in DataInputs : handle_data_msg(d.key, d.shape)
  \/ \E m \in MaxSamplesChoices, c \in ReadConditions : read_as_obj(m, c)
  \/ \E m \in MaxSamplesChoices, c \in ReadConditions : take_as_obj(m, c)
  \/ \E outcome \in {"creatable", "refused"} : error_bin_set(outcome)

Init ==
  /\ DrInit /\ DpInit /\ LkInit /\ ApiInit /\ DdInit /\ InInit /\ RdrInit
  /\ InstInit /\ PortInit /\ WireInit /\ GuidInit /\ RrInit /\ RwInit

SpecInst == Init /\ [][InstNext]_vars

SpecOrder == Init /\ [][OrderNext]_vars
SpecDecode == Init /\ [][DecodeNext]_vars

SpecNextSample == Init /\ [][NextSampleNext]_vars

SpecTake == Init /\ [][TakeNext]_vars

SpecPorts == Init /\ [][PortNext]_vars

SpecWire == Init /\ [][WireNext]_vars

SpecGuid == Init /\ [][GuidNext]_vars

\* The RTPS Reader given DATA of matched and unmatched writers, with the
\* DataReader of its topic.
SpecMatch == Init /\ [][MatchNext]_vars

\* A reliable writer and its reader over a transport that loses DATA.
SpecReliable == Init /\ [][ReliableNext]_vars

\* The same with the writer's and the reader's timers running and a transport
\* that lets a DATA through if it is sent again and again.
SpecReliableLive == SpecReliable /\ ReliableFairness

SpecLock == Init /\ [][LkNext]_vars

SpecLockOrder == Init /\ [][LockOrderNext]_vars

\* DomainParticipant's life with calls through its weak handles.
SpecWeak == Init /\ [][DpNext \/ (\E op \in WeakOps : weak_call(op))]_vars

SpecData == Init /\ [][DdNext]_vars

SpecNew == Init /\ [][InNext]_vars

\* The constructing thread, once runnable, goes on to its next step.
SpecNewLive ==
  /\ SpecNew
  /\ WF_vars(bind_discovery_multicast)
  /\ WF_vars(scan_participant_id)
  /\ WF_vars(bind_user_multicast)
  /\ WF_vars(bind_user_unicast)
  /\ WF_vars(spawn_event_loop)

\* DomainParticipant's life with the DataReaders made and dropped under it.
SpecReader == Init /\ [][DpNext \/ RdrNext]_vars

SpecDP == Init /\ [][DpNext]_vars

SpecShutdown == Init /\ [][ShutdownNext]_vars

\* The steps a runnable thread goes on to take: the dropping thread's steps, the
\* discovery loop's report, command handling and exit, the event loop's return on
\* its stop signal.  Nothing obliges a spawn to succeed, a thread to hang or to
\* panic, or the user to clone, drop or write.
DpFairness ==
  /\ WF_vars(Disc_drop_send)
  /\ WF_vars(Disc_drop_try_recv)
  /\ WF_vars(Disc_drop_join)
  /\ WF_vars(Inner_drop_send)
  /\ WF_vars(Inner_drop_join)
  /\ WF_vars(\E r \in {"Ok", "Err"} : discovery_report(r))
  /\ WF_vars(discovery_command)
  /\ WF_vars(discovery_exit)
  /\ WF_vars(event_loop_stop)

SpecDPLive == SpecDP /\ DpFairness

\* The steps of DomainParticipant::new itself are taken when they can be:
\* recv_timeout returns after 10 s at the latest.
NewFairness ==
  /\ WF_vars(Inner_new)
  /\ WF_vars(spawn_discovery)
  /\ WF_vars(wait_for_discovery)
  /\ WF_vars(new_return_err)

SpecConstructLive == SpecDP /\ DpFairness /\ NewFairness

SpecWake == Init /\ [][WakeNext]_vars

Next == DrNext

Spec == Init /\ [][Next]_vars


\* =================================================================== claims
\* What a caller can tell of a returned sample: its instance, the change it was
\* built from, and whether it carries a value.
SampleValue(d) == [key |-> d.key, src |-> d.src, has_value |-> d.has_value]

ValuesOf(result) == [i \in 1..Len(result) |-> SampleValue(result[i])]

\* The samples held in the datasample cache, sample_state left aside.
HeldValues(ds) == [k \in DOMAIN ds |-> ValuesOf(ds[k])]

HeldSet(ds) == UNION { { SampleValue(ds[k][i]) : i \in 1..Len(ds[k]) } : k \in DOMAIN ds }

RECURSIVE NumHeldFrom(_, _)
NumHeldFrom(ds, k) ==
  IF k > MaxKey THEN 0
  ELSE (IF k \in DOMAIN ds THEN Len(ds[k]) ELSE 0) + NumHeldFrom(ds, k + 1)

NumHeld(ds) == NumHeldFrom(ds, 1)

ResultSet(result) == { SampleValue(result[i]) : i \in 1..Len(result) }

\* C1: read is non-destructive and repeatable.  A read(max, any) whose fetch finds
\* no new change leaves the held samples as they were, changing nothing but the
\* sample_state of the samples it returns (to Read); and when the call before it
\* was a read(max, any) with the same max, it returns the same sample values in
\* the same order.
C1_ReadRepeatable ==
  [][\A m \in MaxSamplesChoices :
       (last'.op = "read" /\ last'.max = m /\ last'.fetched = 0
          /\ read_as_obj(m, ReadCondition_any))
         => /\ HeldValues(datasamples') = HeldValues(datasamples)
            /\ \A k \in DOMAIN datasamples : \A i \in 1..Len(datasamples[k]) :
                 \/ datasamples'[k][i] = datasamples[k][i]
                 \/ /\ datasamples'[k][i] =
                         [datasamples[k][i] EXCEPT !.sample_state = "Read"]
                    /\ SampleValue(datasamples[k][i]) \in ResultSet(last'.result)
            /\ (last.op = "read" /\ last.max = m /\ last.cond = ReadCondition_any)
                 => ValuesOf(last'.result) = ValuesOf(last.result)
    ]_vars

\* C1 witness: a read(any) that fetched nothing new returned two samples, both
\* still held.
C1_Witness ==
  /\ last.op = "read" /\ last.cond = ReadCondition_any /\ last.fetched = 0
  /\ Len(last.result) = 2
  /\ ResultSet(last.result) \subseteq HeldSet(datasamples)

\* C2: take is destructive.  A take(max, any) with max at least the number of
\* samples held returns every held sample (the ones read before included) and
\* leaves none; a take(any) issued when nothing is held and nothing new arrived
\* returns the empty list.
C2_TakeDestructive ==
  [][\A m \in MaxSamplesChoices :
       (last'.op = "take" /\ last'.max = m /\ take_as_obj(m, ReadCondition_any))
         => /\ (m >= NumHeld(datasamples) + last'.fetched)
                 => /\ HeldSet(datasamples) \subseteq ResultSet(last'.result)
                    /\ NumHeld(datasamples') = 0
            /\ (NumHeld(datasamples) = 0 /\ last'.fetched = 0)
                 => last'.result = <<>>
    ]_vars

\* C2 witness: a take(any) issued after an earlier call had ingested two samples
\* returned both and left the datasample cache empty.
C2_Witness ==
  /\ last.op = "take" /\ last.cond = ReadCondition_any /\ last.fetched = 0
  /\ Len(last.result) = 2
  /\ NumHeld(datasamples) = 0

Deliverable(cc) ==
  dr_created /\ cc.instant > dr_birth /\ cc.prefix = "remote" /\ cc.payload = "ok"

\* C4: exactly-once ingestion.  No change is ever built into two DataSamples;
\* every deliverable change at or before latest_instant, and every deliverable
\* change once a DataReader call has returned, was built into exactly one;
\* latest_instant never decreases and no call builds a sample from a change at or
\* before latest_instant.
C4_ExactlyOnce ==
  /\ [](\A i \in 1..Len(topic_cache) :
          LET cc == topic_cache[i]
          IN /\ ingested[cc.instant] <= 1
             /\ (Deliverable(cc) /\ cc.instant <= latest_instant)
                  => ingested[cc.instant] = 1
             /\ (Deliverable(cc) /\ last.op \in {"read", "take"})
                  => ingested[cc.instant] = 1)
  /\ [][/\ latest_instant' >= latest_instant
        /\ \A t \in 1..MaxClock :
             t <= latest_instant => ingested'[t] = ingested[t]]_vars

\* C4 witness: a change inserted before DataReader::new was never ingested, one
\* inserted after it was ingested once, and a later call fetched nothing.
C4_Witness ==
  /\ last.op \in {"read", "take"} /\ last.fetched = 0
  /\ \E i, j \in 1..Len(topic_cache) :
       /\ topic_cache[i].instant < dr_birth /\ ingested[topic_cache[i].instant] = 0
       /\ Deliverable(topic_cache[j]) /\ ingested[topic_cache[j].instant] = 1


\* C5 as claimed: no lost wake-up.  Whenever the consumer's take has returned and
\* the RTPS reader is not in the middle of handling a DATA, a change in the cache
\* newer than latest_instant has a notification pending in the channel.
C5_NoLostWakeup ==
  (dr_created /\ co_pc = "idle" /\ rd_pc = "idle"
     /\ new_cache_changes(topic_cache, latest_instant, clock) # <<>>)
    => notif > 0


\* C6 as claimed: single cache per participant.  The handle get_dds_cache returns
\* is the cache handed to the event loop at construction, so both handles show
\* the same changes.
C6_SingleCache ==
  ev # "none"
    => /\ get_dds_cache = caches.event_loop
       /\ caches.content[get_dds_cache] = caches.content[caches.event_loop]

\* C7: shutdown ordering.  The event loop is told to stop only after
\* STOP_DISCOVERY was sent, or found undeliverable because discovery had dropped
\* its command receiver; and once STOP_DISCOVERY was sent successfully, the event
\* loop is told to stop only after the discovery thread has exited (was joined).
C7_ShutdownOrdering ==
  /\ stop_signals > 0 => (stop_disc_ok \/ ~cmd_chan.receiver)
  /\ (stop_signals > 0 /\ stop_disc_ok) => disc = "exited"
  /\ (drop_pc \in {"inner_send", "inner_join", "done"} /\ stop_disc_ok)
       => disc = "exited"

\* C7 witness: the last handle of a constructed participant was dropped,
\* STOP_DISCOVERY was sent, discovery exited, and then the event loop was
\* stopped and joined.
C7_Witness ==
  /\ new_result = "Ok" /\ strong = 0 /\ drop_pc = "done"
  /\ stop_disc_ok /\ stop_signals > 0
  /\ disc = "exited" /\ ev = "exited"

\* C8 as claimed: bounded shutdown.  A drop of the last handle, once begun,
\* completes, whatever the discovery thread does after STOP_DISCOVERY was sent.
C8_BoundedShutdown ==
  (drop_pc = "disc_send") ~> (drop_pc = "done")

\* C9: DomainParticipant::new returns Ok only if discovery reported Ok on the
\* started channel.  When recv_timeout yields Ok(Err), Timeout or Disconnected the
\* call drops its handle and does not return Ok; a call that returned an error
\* left no strong handle, and its result never changes.
C9_OkOnlyIfDiscoveryOk ==
  /\ [](new_result = "Ok" => reported = "Ok")
  /\ [](new_result = "Err" => strong = 0)
  /\ [][(wait_for_discovery /\ recv_timeout_result # "OkOk")
          => (new_result' # "Ok" /\ strong' = 0)]_vars
  /\ [][new_result = "Err" => new_result' = "Err"]_vars

\* C9 witness: discovery had not reported when the wait timed out, and new
\* returned an error.
C9_Witness ==
  /\ new_result = "Err" /\ strong = 0
  /\ disc # "none" /\ started_chan.msgs = <<>> /\ reported \in {"none", "Ok"}
  /\ stop_disc_ok

\* C10: a failed construction aborts the participant.  When new has returned an
\* error after the event-loop thread was spawned, the drop of the partially built
\* participant has finished, the event-loop thread has ended, and a discovery
\* thread that was started has ended too: STOP_DISCOVERY was sent to it unless it
\* had already dropped its command receiver.
C10_FailedConstructionAborts ==
  (new_result = "Err" /\ ev # "none")
    => /\ drop_pc = "done" /\ strong = 0
       /\ ev = "exited"
       /\ disc \in {"none", "exited"}
       /\ disc # "none" => (stop_disc_ok \/ ~cmd_chan.receiver)

\* C10 witness: discovery reported a failed start, new sent it STOP_DISCOVERY,
\* joined it, stopped and joined the event loop, and returned the error.
C10_Witness ==
  /\ new_result = "Err" /\ reported = "Err"
  /\ stop_disc_ok /\ disc = "exited"
  /\ stop_signals > 0 /\ ev = "exited"


\* C11 as claimed: no lock is held while sending on a bounded channel.  A thread
\* that is at its send (add_reader, remove_reader, STOP_DISCOVERY,
\* REMOVE_LOCAL_READER) holds neither participant mutex.
C11_NoLockHeldAtSend ==
  \A t \in LkThreads : lk_th[t].pc = "send" => lk_th[t].held = {}


\* C12 as claimed: every user-API operation called through a participant
\* reference whose participant has been dropped returns PreconditionNotMet.
C12_DanglingIsPreconditionNotMet ==
  (weak_last.op # "none" /\ ~weak_last.upgraded)
    => weak_last.result = "PreconditionNotMet"


\* C13: dispose carries key.  new_disposed builds a DDSData without payload whose
\* value_key_hash is the key hash it was given (0 when it was given none), and
\* whose change kind is NOT_ALIVE_DISPOSED when the StatusInfo has the Disposed
\* bit.
C13_DisposeCarriesKey ==
  dd_call.fn = "new_disposed"
    => /\ dd.value = None
       /\ \A h \in 0..MaxHash :
            dd_call.key_hash = Some([key |-> h]) => dd.value_key_hash = h
       /\ dd_call.key_hash = None => dd.value_key_hash = 0
       /\ (dd_call.status_info # None /\ "Disposed" \in dd_call.status_info[1])
            => dd.change_kind = "NOT_ALIVE_DISPOSED"

\* C13 witness: a dispose received with the Disposed bit and a non-zero key hash.
C13_Witness ==
  /\ dd_call.fn = "new_disposed"
  /\ dd_call.status_info = Some({"Disposed"})
  /\ dd_call.key_hash = Some([key |-> MaxHash])
  /\ dd.change_kind = "NOT_ALIVE_DISPOSED"
  /\ dd.value = None
  /\ dd.value_key_hash = MaxHash

\* C14 as claimed: a locally created dispose carries its key.  Two from_dispose
\* calls for distinct keys give records that differ in payload or key hash, and
\* the record of a from_dispose has a payload.
C14_LocalDisposeCarriesKey ==
  /\ dd_call.fn = "from_dispose" => dd.value # None
  /\ (dd_call.fn = "from_dispose" /\ dd_prev_call.fn = "from_dispose"
        /\ dd_call.key # dd_prev_call.key)
       => (dd.value # dd_prev.value \/ dd.value_key_hash # dd_prev.value_key_hash)

\* C15: StatusInfo to change kind.  new_disposed gives ALIVE when it has no
\* StatusInfo; with one, NOT_ALIVE_DISPOSED if Disposed is set, else
\* NOT_ALIVE_UNREGISTERED if Unregistered is set, else ALIVE, whatever Filtered is.
C15_StatusInfoToChangeKind ==
  dd_call.fn = "new_disposed"
    => /\ dd_call.status_info = None => dd.change_kind = "ALIVE"
       /\ \A si \in StatusInfos :
            dd_call.status_info = Some(si)
              => /\ "Disposed" \in si => dd.change_kind = "NOT_ALIVE_DISPOSED"
                 /\ ("Disposed" \notin si /\ "Unregistered" \in si)
                      => dd.change_kind = "NOT_ALIVE_UNREGISTERED"
                 /\ ("Disposed" \notin si /\ "Unregistered" \notin si)
                      => dd.change_kind = "ALIVE"

\* C15 witness: a StatusInfo with both Disposed and Unregistered set gave
\* NOT_ALIVE_DISPOSED.
C15_Witness ==
  /\ dd_call.fn = "new_disposed"
  /\ dd_call.status_info = Some({"Disposed", "Unregistered"})
  /\ dd.change_kind = "NOT_ALIVE_DISPOSED"

\* C16 as claimed: in every DDSData a constructor returns, the payload is absent
\* exactly when the change kind is NOT_ALIVE_DISPOSED or NOT_ALIVE_UNREGISTERED.
C16_PayloadAbsentIffNotAlive ==
  dd_call.fn # "none"
    => (dd.value = None
          <=> dd.change_kind \in {"NOT_ALIVE_DISPOSED", "NOT_ALIVE_UNREGISTERED"})

\* C16 amended: a NOT_ALIVE_DISPOSED or NOT_ALIVE_UNREGISTERED change has no
\* payload; new and from return ALIVE with a payload; an ALIVE change without
\* payload comes from new_disposed alone, when it was given no StatusInfo or one
\* with neither Disposed nor Unregistered set.
C16_NotAliveHasNoPayload ==
  dd_call.fn # "none"
    => /\ dd.change_kind \in {"NOT_ALIVE_DISPOSED", "NOT_ALIVE_UNREGISTERED"}
            => dd.value = None
       /\ dd_call.fn \in {"new", "from"}
            => (dd.change_kind = "ALIVE" /\ dd.value # None)
       /\ (dd.change_kind = "ALIVE" /\ dd.value = None)
            => /\ dd_call.fn = "new_disposed"
               /\ \/ dd_call.status_info = None
                  \/ dd_call.status_info[1] \cap {"Disposed", "Unregistered"} = {}

\* C16 witness: new_disposed without StatusInfo returned an ALIVE change that has
\* no payload.
C16_Witness ==
  /\ dd_call.fn = "new_disposed"
  /\ dd_call.status_info = None
  /\ dd.change_kind = "ALIVE"
  /\ dd.value = None


\* C17 as claimed: the participant_id selected is the smallest one whose unicast
\* ports are bindable.  Once the scan has selected an id, every smaller id had
\* its SPDP unicast port in use, the selected id's SPDP unicast port was free,
\* and its user-traffic unicast port is not found in use.
C17_SmallestBindableId ==
  in_pc \in {"user_multicast", "user_unicast", "spawn", "done"}
    => \/ in_result = "panic" /\ in_env.user_multicast = "untried"
       \/ /\ participant_id \notin spdp_taken
          /\ \A p \in ParticipantIds : p < participant_id => p \in spdp_taken
          /\ in_env.user_unicast # "taken"

\* C18 as claimed: when no participant_id has a bindable SPDP unicast port, the
\* scan ends and construction returns an error.
C18_ExhaustedScanReturnsErr ==
  (in_pc = "scan" /\ spdp_taken = ParticipantIds) ~> (in_result = "Err")

\* C19: multicast failure is tolerated.  A construction that returned Ok gave
\* the event loop both unicast listeners and exactly the multicast listeners
\* whose socket was bound and whose group was joined; an error comes from the
\* event-loop spawn alone and a panic from the unicast sockets alone, never from
\* a multicast bind or join.
C19_MulticastFailureTolerated ==
  /\ in_pc \in {"spawn", "done"} /\ in_env.user_unicast = "free"
       => listeners =
            {"DISCOVERY_LISTENER_TOKEN", "USER_TRAFFIC_LISTENER_TOKEN"}
            \cup (IF in_env.discovery_multicast = "joined"
                    THEN {"DISCOVERY_MUL_LISTENER_TOKEN"} ELSE {})
            \cup (IF in_env.user_multicast = "joined"
                    THEN {"USER_TRAFFIC_MUL_LISTENER_TOKEN"} ELSE {})
  /\ in_result = "Ok" => in_env.user_unicast = "free"
  /\ in_result = "Err" => in_env.spawn = "failed"
  /\ in_result = "panic"
       => (in_env.user_unicast = "taken" \/ spdp_taken = ParticipantIds)
  /\ (in_pc = "done" /\ in_env.user_unicast = "free" /\ in_env.spawn = "spawned")
       => in_result = "Ok"

\* C19 witness: neither multicast listener could be had (one bind failed, one
\* join failed), construction returned Ok and the event loop has the two
\* unicast listeners alone.
C19_Witness ==
  /\ in_result = "Ok"
  /\ in_env.discovery_multicast = "bind_failed"
  /\ in_env.user_multicast = "join_failed"
  /\ listeners = {"DISCOVERY_LISTENER_TOKEN", "USER_TRAFFIC_LISTENER_TOKEN"}

\* The log entries of one DataReader's drop.
RmLogOf(g) == { i \in 1..Len(rm_log) : rm_log[i].reader = g }

\* The REMOVE_LOCAL_READER commands for one GUID waiting in the command channel.
QueuedFor(g) ==
  { i \in 1..Len(cmd_chan.msgs) :
      cmd_chan.msgs[i].cmd = "REMOVE_LOCAL_READER" /\ cmd_chan.msgs[i].guid = g }

\* C20: a dropped DataReader made exactly one send, of REMOVE_LOCAL_READER with
\* its own GUID; a DataReader not dropped made none.  When the send failed (the
\* discovery receiver was gone) the drop completed all the same and nothing was
\* put on the channel; at most one command per GUID is ever queued, and none
\* carries a GUID other than a dropped DataReader's.
C20_DropSendsOneRemove ==
  /\ \A g \in ReaderGuids :
       /\ readers[g] = "dropped" => Cardinality(RmLogOf(g)) = 1
       /\ readers[g] # "dropped" => RmLogOf(g) = {}
       /\ Cardinality(QueuedFor(g)) <= 1
       /\ QueuedFor(g) # {}
            => (readers[g] = "dropped" /\ \E i \in RmLogOf(g) : rm_log[i].ok)
  /\ \A i \in 1..Len(rm_log) :
       /\ rm_log[i].command.cmd = "REMOVE_LOCAL_READER"
       /\ rm_log[i].command.guid = rm_log[i].reader
  /\ \A i \in 1..Len(cmd_chan.msgs) :
       cmd_chan.msgs[i].cmd = "REMOVE_LOCAL_READER"
         => cmd_chan.msgs[i].guid \in ReaderGuids

\* C20 witness: one DataReader was dropped while discovery listened and its
\* command is queued; another was dropped after discovery had gone, its send
\* failed and its drop completed.
C20_Witness ==
  \E g, h \in ReaderGuids :
    /\ readers[g] = "dropped" /\ readers[h] = "dropped"
    /\ \E i \in RmLogOf(g) : rm_log[i].ok
    /\ QueuedFor(g) # {}
    /\ \E i \in RmLogOf(h) : ~rm_log[i].ok
    /\ QueuedFor(h) = {}


\* C21: read_instance / take_instance operate on one instance.  With no
\* instance_key it is the smallest key of the datasample map; with Some(k) and
\* This it is k; with Some(k) and Next it is the smallest key of the map above
\* k.  Where no such instance exists the result is empty, and every returned
\* sample is of the instance selected.
InstOps == {"read_instance", "take_instance"}

DsKeys == DOMAIN datasamples

SelectedInstance ==
  IF inst_call.instance_key = None
    THEN {k \in DsKeys : \A y \in DsKeys : k <= y}
    ELSE IF inst_call.this_or_next = "This"
           THEN {inst_call.instance_key[1]}
           ELSE {k \in DsKeys :
                   /\ k > inst_call.instance_key[1]
                   /\ \A y \in DsKeys : y > inst_call.instance_key[1] => k <= y}

C21_InstanceSelection ==
  last.op \in InstOps =>
    /\ inst_call.key = None <=> SelectedInstance = {}
    /\ inst_call.key # None => inst_call.key[1] \in SelectedInstance
    /\ SelectedInstance \cap DsKeys = {} => last.result = <<>>
    /\ \A i \in 1..Len(last.result) : last.result[i].key \in SelectedInstance
    /\ (last.max >= 1 /\ last.cond = ReadCondition_any /\ last.op = "read_instance"
        /\ SelectedInstance \cap DsKeys # {})
         => \A k \in SelectedInstance :
              Len(last.result) = Min(last.max, Len(datasamples[k]))

\* read_instance(Some(1), Next) returned a sample of instance 2 while instance 1
\* holds samples too.
C21_Witness ==
  /\ last.op = "read_instance"
  /\ inst_call.instance_key = Some(1)
  /\ inst_call.this_or_next = "Next"
  /\ inst_call.key = Some(2)
  /\ Len(last.result) >= 1
  /\ 1 \in DsKeys
  /\ Len(datasamples[1]) >= 1


\* The ports the participants of the domain opened, all kinds.
OpenedPorts ==
  {pt_call.ports[p][k] : p \in TypicalParticipantIds, k \in PortKinds}

\* The sockets of the domain: a multicast socket is the domain's (written with
\* participant 0), a unicast socket the participant's.
Sockets ==
  {<<k, 0>> : k \in MulticastKinds}
  \cup {<<k, p>> : k \in PortKinds \ MulticastKinds, p \in TypicalParticipantIds}

\* No listener of another domain is on one of the ports `opened`.
OtherDomainsApartFrom(opened) ==
  \A d \in DomainIds \ {pt_call.domain_id}, p \in TypicalParticipantIds :
     LET ports == listener_ports(d, p)
     IN /\ ports.spdp_multicast \notin opened
        /\ ports.spdp_unicast \notin opened
        /\ ports.user_multicast \notin opened
        /\ ports.user_unicast \notin opened

OtherDomainsApart == LET opened == OpenedPorts IN OtherDomainsApartFrom(opened)

\* What C22 says of the ports of one participant.
PortsAsDerived(d, p) ==
  /\ \A k \in PortKinds : pt_call.ports[p][k] \in 0..65535
  /\ pt_call.ports[p].spdp_multicast = 7400 + 250 * d
  /\ pt_call.ports[p].user_multicast = 7400 + 250 * d + 1
  /\ pt_call.ports[p].spdp_unicast = 7400 + 250 * d + 10 + 2 * p
  /\ pt_call.ports[p].user_unicast = pt_call.ports[p].spdp_unicast + 1
  /\ (d = 7 /\ p = 2)
       => pt_call.ports[p] = [spdp_multicast |-> 9150, spdp_unicast |-> 9164,
                              user_multicast |-> 9151, user_unicast |-> 9165]

\* C22 as stated: for every domain_id in 0..231 and participant_id in 0..119 the
\* four ports fit in 16 bits, the user-traffic unicast port is the SPDP unicast
\* port plus one, domain 7 and participant 2 give 9150, 9164, 9151, 9165, and no
\* two distinct (domain_id, participant_id, port kind) yield the same port.
C22_PortsCollisionFree ==
  pt_call.op = "ports" =>
    /\ \A p \in TypicalParticipantIds : PortsAsDerived(pt_call.domain_id, p)
    /\ Cardinality(OpenedPorts)
         = Cardinality(TypicalParticipantIds) * Cardinality(PortKinds)
    /\ OtherDomainsApart

\* C22, amended: the same, with no port shared by two sockets, a multicast
\* socket being one per domain (its port is the same for every participant_id)
\* and a unicast socket one per (domain_id, participant_id).
C22_PortDerivation ==
  pt_call.op = "ports" =>
    /\ \A p \in TypicalParticipantIds : PortsAsDerived(pt_call.domain_id, p)
    /\ Cardinality(OpenedPorts) = Cardinality(Sockets)
    /\ OtherDomainsApart

\* The largest ids: the ports of domain 231, participant 119.
C22_Witness ==
  /\ pt_call.op = "ports"
  /\ pt_call.domain_id = 231
  /\ pt_call.ports[119].user_unicast = 65399

\* The representation identifiers of a byte order.
RepsOf(bo) ==
  IF bo = "BigEndian" THEN {"CDR_BE", "PL_CDR_BE"} ELSE {"CDR_LE", "PL_CDR_LE"}

\* C23 as stated: a KeyHash encodes to 16 octets and decodes to itself under a
\* CDR or PL_CDR identifier of the same byte order; fewer than 16 octets decode
\* to an error; any other identifier decodes to key 0.
C23_KeyHashRoundTrip ==
  wire_call.fn = "KeyHash" =>
    /\ Len(wire_call.encoded) = KeyHashLen
    /\ (wire_call.bytes = wire_call.encoded
        /\ wire_call.representation_id \in RepsOf(wire_call.bo))
         => wire_call.decoded = Ok(wire_call.value)
    /\ Len(wire_call.bytes) < KeyHashLen => ~wire_call.decoded.ok
    /\ wire_call.representation_id = "other"
         => wire_call.decoded = Ok([key |-> U128_zero])

\* C23, amended: fewer than 16 octets decode to an error under a CDR or PL_CDR
\* identifier; under any other identifier the octets are not read and the
\* result is key 0 whatever their number.
C23_KeyHashRoundTripKnownRep ==
  wire_call.fn = "KeyHash" =>
    /\ Len(wire_call.encoded) = KeyHashLen
    /\ (wire_call.bytes = wire_call.encoded
        /\ wire_call.representation_id \in RepsOf(wire_call.bo))
         => wire_call.decoded = Ok(wire_call.value)
    /\ (Len(wire_call.bytes) < KeyHashLen /\ wire_call.representation_id # "other")
         => ~wire_call.decoded.ok
    /\ wire_call.representation_id = "other"
         => wire_call.decoded = Ok([key |-> U128_zero])

\* A key whose octets differ by byte order, encoded little-endian and decoded
\* back under PL_CDR_LE.
C23_Witness ==
  /\ wire_call.fn = "KeyHash"
  /\ wire_call.bo = "LittleEndian"
  /\ wire_call.representation_id = "PL_CDR_LE"
  /\ wire_call.value.key[KeyHashLen] = 1
  /\ wire_call.encoded[1] = 1
  /\ wire_call.encoded # wire_call.value.key
  /\ wire_call.bytes = wire_call.encoded
  /\ wire_call.decoded = Ok(wire_call.value)

\* C24: a StatusInfo encodes to the four octets 0, 0, 0, flags in either byte
\* order (Disposed 1, Unregistered 2, Filtered 4), and from_cdr_bytes of them
\* under CDR_LE or CDR_BE gives the StatusInfo back.
C24_StatusInfoWireForm ==
  wire_call.fn = "StatusInfo" =>
    /\ wire_call.encoded =
         <<0, 0, 0,
           (IF "Disposed" \in wire_call.value.si THEN 1 ELSE 0)
           + (IF "Unregistered" \in wire_call.value.si THEN 2 ELSE 0)
           + (IF "Filtered" \in wire_call.value.si THEN 4 ELSE 0)>>
    /\ wire_call.bytes = wire_call.encoded => wire_call.decoded = Ok(wire_call.value)

\* Disposed | Unregistered, encoded big-endian as 0, 0, 0, 3 and decoded under
\* CDR_LE.
C24_Witness ==
  /\ wire_call.fn = "StatusInfo"
  /\ wire_call.value.si = {"Disposed", "Unregistered"}
  /\ wire_call.bo = "BigEndian"
  /\ wire_call.representation_id = "CDR_LE"
  /\ wire_call.bytes = <<0, 0, 0, 3>>
  /\ wire_call.decoded = Ok(wire_call.value)


\* C25: the GUID DomainParticipant_Inner::new generated is the one given to
\* the event loop, the one every get_guid returns (on the participant, its
\* clones, Disc, Inner and every weak handle made from it), and the one every
\* weak handle caches, after any sequence of operations.
C25_GuidFixedAtConstruction ==
  new_guid # 0 =>
    /\ my_guid = new_guid
    /\ domain_info.domain_participant_guid = new_guid
    /\ \A i \in 1..Len(weaks) : weaks[i].guid = new_guid
    /\ guid_last.on # "none" => guid_last.guid = new_guid

\* A weak handle, cloned from another, asked for its GUID after the last
\* DomainParticipant handle has gone.
C25_Witness ==
  /\ new_guid = MaxGuid
  /\ guid_strong = 0
  /\ Len(weaks) = 2
  /\ guid_last = [on |-> "DomainParticipantWeak", guid |-> MaxGuid]


Published(sn) == sn <= highest_assigned

\* The Reader's cache holds the writer's sample with this sequence number.
Delivered(sn) == sn \in already_received("W")

\* The writer's changes are in the Reader's cache in sequence-number order.
InSequenceNumberOrder ==
  \A i, j \in 1..Len(rx_log) : i < j => rx_log[i].sn < rx_log[j].sn

\* The Reader's cache holds no sample of the writer twice.
DeliveredOnce ==
  \A i, j \in 1..Len(rx_log) : i < j => rx_log[i].sn # rx_log[j].sn

\* Every sample the matched writer has published is in the Reader's cache in
\* the end.
EventuallyDelivered ==
  \A sn \in SequenceNumbers :
    (Published(sn) /\ matched_writer_lookup("W")) ~> Delivered(sn)

BoundedOps == {"read", "take", "read_instance", "take_instance"}

\* C28: read, take, read_instance and take_instance return at most max_samples
\* samples, for max_samples = 0 as well; what a take returns is what it has
\* removed from the datasample cache.
C28_MaxSamplesIsUpperBound ==
  last.op \in BoundedOps => Len(last.result) <= last.max


\* C29: DomainParticipant::new returns in every execution, with Ok or with an
\* error; a call whose wait for the discovery thread's report has timed out
\* returns an error, whether or not the discovery thread ever exits.
C29_ConstructionReturns ==
  /\ <>(new_pc = "returned")
  /\ (new_pc = "dropping") ~> (new_pc = "returned" /\ new_result = "Err")


\* The samples of a sequence are in the order of the cache instants of their
\* changes, instance by instance.
InArrivalOrder(samples) ==
  \A i, j \in 1..Len(samples) :
    (i < j /\ samples[i].key = samples[j].key) => samples[i].src < samples[j].src

\* C30: within one instance, the samples that read, take, read_instance and
\* take_instance return are in the order in which their changes went into the
\* cache; the vector of each instance in the datasample cache is in that order,
\* whatever was taken from it before.
C30_PerInstanceArrivalOrder ==
  /\ \A k \in DOMAIN datasamples : InArrivalOrder(datasamples[k])
  /\ last.op \in BoundedOps => InArrivalOrder(last.result)

\* take_instance returned two samples of instance 1, the one of the earlier
\* change first, and left the instance's vector empty.
C30_Witness ==
  /\ last.op = "take_instance"
  /\ Len(last.result) = 2
  /\ last.result[1].key = 1 /\ last.result[2].key = 1
  /\ last.result[1].src < last.result[2].src
  /\ datasamples[1] = <<>>


\* The cache instants of the samples in a sequence.
SrcOf(samples) == { samples[i].src : i \in 1..Len(samples) }

\* The cache instants of the samples held in the datasample cache.
HeldSrc == UNION { SrcOf(datasamples[k]) : k \in DOMAIN datasamples }

\* C31: a change whose writer is of the DataReader's own participant is never
\* built into a sample, held or returned, and latest_instant is never its
\* instant: a fetch that finds only such changes leaves latest_instant as it
\* was.  A change of any other writer, with a payload that decodes, is built
\* into a sample once latest_instant has passed it.
C31_OwnParticipantFiltered ==
  /\ [](\A i \in 1..Len(topic_cache) :
          LET cc == topic_cache[i]
          IN /\ cc.prefix = "own"
                  => /\ ingested[cc.instant] = 0
                     /\ cc.instant \notin HeldSrc
                     /\ cc.instant \notin SrcOf(last.result)
                     /\ latest_instant # cc.instant
             /\ (cc.prefix # "own" /\ cc.payload = "ok" /\ dr_created
                 /\ dr_birth < cc.instant /\ cc.instant <= latest_instant)
                  => ingested[cc.instant] = 1)
  /\ [][(dr_created
         /\ \A i \in 1..Len(topic_cache) :
              topic_cache[i].instant > latest_instant => topic_cache[i].prefix = "own")
          => latest_instant' = latest_instant]_vars

\* A read returned the sample of a remote change written after a change of the
\* DataReader's own participant, both after DataReader::new.
C31_Witness ==
  /\ last.op = "read"
  /\ Len(last.result) = 1
  /\ Len(topic_cache) = 2
  /\ topic_cache[1].prefix = "own" /\ topic_cache[1].instant > dr_birth
  /\ topic_cache[2].prefix = "remote"
  /\ last.result[1].src = topic_cache[2].instant
  /\ latest_instant = topic_cache[2].instant
  /\ dr_created


\* A change of a remote writer that a fetch of the DataReader has covered.
Fetched(cc) ==
  dr_created /\ cc.prefix # "own" /\ dr_birth < cc.instant /\ cc.instant <= latest_instant

\* C32: every NOT_ALIVE_DISPOSED change without payload that the DataReader has
\* fetched was built into a disposed sample of its instance, whether or not the
\* DataReader had seen the key hash before.
C32_DisposeAlwaysDelivered ==
  \A i \in 1..Len(topic_cache) :
    LET cc == topic_cache[i]
    IN (Fetched(cc) /\ cc.kind = "NOT_ALIVE_DISPOSED" /\ cc.payload = "none")
         => ingested[cc.instant] = 1

\* The DataReader had a sample of the change's instance before it fetched the
\* change: the key hash was in its datasample cache.
KeyHashKnownAt(cc) ==
  \E j \in 1..Len(topic_cache) :
    /\ topic_cache[j].key = cc.key
    /\ topic_cache[j].instant < cc.instant
    /\ ingested[topic_cache[j].instant] = 1

\* C33: a NOT_ALIVE_UNREGISTERED change without payload whose key hash the
\* DataReader knows is built, when fetched, into a sample of that instance (with
\* instance state NotAlive_NoWriters), as a key-only dispose is.
C33_UnregisterDelivered ==
  \A i \in 1..Len(topic_cache) :
    LET cc == topic_cache[i]
    IN (Fetched(cc) /\ cc.kind = "NOT_ALIVE_UNREGISTERED" /\ cc.payload = "none"
        /\ KeyHashKnownAt(cc))
         => ingested[cc.instant] = 1



\* C34: a change with an unknown representation identifier or with bytes that
\* fail to deserialize is skipped alone: no read or take call fails because of
\* it, it is never built into a sample (on the call that fetched it or later),
\* and every other fetched change with a payload that decodes is built into a
\* sample.
C34_UndecodableSkippedAlone ==
  /\ ~dr_panicked
  /\ \A i \in 1..Len(topic_cache) :
       LET cc == topic_cache[i]
       IN Fetched(cc)
            => IF cc.payload \in {"unknown_rep", "bad_bytes"}
                 THEN ingested[cc.instant] = 0 /\ cc.instant \notin HeldSrc
                 ELSE cc.payload = "ok" => ingested[cc.instant] = 1



\* The datasample cache as a take call finds it when its collection loop starts:
\* the cache before the call with the samples of the call's own fetch added.
CacheAtLoopStart ==
  get_datasamples_from_cache(topic_cache, latest_instant, clock, datasamples,
                             ingested).ds

\* C35: a take or take_instance call removes from the datasample cache exactly
\* the samples it returns.  Every other sample (one that does not match the
\* read condition, one beyond max_samples, one of another instance than the
\* one take_instance works on) stays in its instance's vector, unchanged and in
\* the same relative order.
C35_FrameOfTake ==
  [][(dr_created /\ last'.op \in {"take", "take_instance"} /\ topic_cache' = topic_cache)
       => LET before == CacheAtLoopStart
              returned == SrcOf(last'.result)
          IN /\ Cardinality(returned) = Len(last'.result)
             /\ returned \subseteq UNION { SrcOf(before[k]) : k \in DOMAIN before }
             /\ DOMAIN datasamples' = DOMAIN before
             /\ \A k \in DOMAIN before :
                  /\ datasamples'[k]
                       = SelectSeq(before[k], LAMBDA x : x.src \notin returned)
                  /\ \A i \in 1..Len(before[k]) :
                       ~matches_conditions(last'.cond, before[k][i])
                         => before[k][i].src \notin returned
                  /\ (last'.op = "take_instance" /\ inst_call'.key # Some(k))
                       => datasamples'[k] = before[k]]_vars

\* A take with ReadCondition::not_read() returned the one unread sample of an
\* instance and left the sample a read had marked Read in the instance's vector.
C35_Witness ==
  /\ last.op = "take"
  /\ last.cond = ReadCondition_not_read
  /\ Len(last.result) = 1
  /\ \E k \in DOMAIN datasamples :
       /\ last.result[1].key = k
       /\ Len(datasamples[k]) = 1
       /\ datasamples[k][1].sample_state = "Read"
       /\ datasamples[k][1].src < last.result[1].src



\* The cache instants of the held samples in a given sample state.
HeldInState(ds, sample_state) ==
  UNION { { ds[k][i].src : i \in { j \in 1..Len(ds[k]) :
                                     ds[k][j].sample_state = sample_state } } :
          k \in DOMAIN ds }

\* C36: read_next_sample and take_next_sample deliver each sample at most once.
\* A sample that read, read_instance or read_next_sample returns is held marked
\* Read; a held sample marked Read stays marked Read while it is held, and no
\* change is built into a sample twice; read_next_sample and take_next_sample
\* return a sample that was not read before the call, and return None exactly
\* when no unread sample is left.
C36_NextSampleAtMostOnce ==
  [][(dr_created /\ ~dr_panicked' /\ topic_cache' = topic_cache)
       => LET before == CacheAtLoopStart
              returned == SrcOf(last'.result)
          IN /\ last'.op \in {"read", "read_instance", "read_next_sample"}
                  => returned \subseteq HeldInState(datasamples', "Read")
             /\ HeldInState(datasamples, "Read") \cap HeldInState(datasamples', "NotRead") = {}
             /\ \A i \in 1..MaxClock : ingested'[i] <= 1
             /\ last'.op \in {"read_next_sample", "take_next_sample"}
                  => /\ next_sample' = None <=> HeldInState(before, "NotRead") = {}
                     /\ next_sample' # None
                          => /\ next_sample'[1].src \in HeldInState(before, "NotRead")
                             /\ next_sample'[1].src \notin HeldInState(datasamples, "Read")
                             /\ next_sample'[1].src \notin HeldInState(datasamples', "NotRead")
                             /\ next_sample'[1].sample_state = "Read"
                             /\ returned = {next_sample'[1].src}]_vars

\* take_next_sample returned the unread sample while an earlier sample, which a
\* read call had returned, is held marked Read.
C36_Witness ==
  /\ last.op = "take_next_sample"
  /\ next_sample # None
  /\ HeldInState(datasamples, "NotRead") = {}
  /\ \E c \in HeldInState(datasamples, "Read") : c < next_sample[1].src



\* The next lock step of thread t can be taken now.
CanStep(t) ==
  /\ lk_th[t].pc = "running"
  /\ lk_prog[t] # <<>>
  /\ Head(lk_prog[t]) = "lock_outer" => lk_outer = 0
  /\ Head(lk_prog[t]) = "lock_inner" => lk_inner = 0

\* C37: the operations of DomainParticipant and DomainParticipantWeak take the
\* outer mutex before the inner one and never lock a mutex the calling thread
\* already holds (weak_clone has released both before the operation locks);
\* with any threads inside such calls on handles of one participant, some
\* thread can always take its next step: no thread blocks on itself and the
\* threads never block each other for ever.
C37_LockOrderNoDeadlock ==
  /\ \A t \in LkThreads :
       /\ "inner" \in lk_th[t].held => "outer" \in lk_th[t].held
       /\ "outer" \in lk_th[t].held <=> lk_outer = t
       /\ "inner" \in lk_th[t].held <=> lk_inner = t
       /\ lk_th[t].pc = "running"
            => /\ lk_prog[t] # <<>>
               /\ Head(lk_prog[t]) = "lock_outer" => lk_th[t].held = {}
               /\ Head(lk_prog[t]) = "lock_inner" => lk_th[t].held = {"outer"}
  /\ (\E t \in LkThreads : lk_th[t].pc = "running")
       => \E t \in LkThreads : CanStep(t)
  /\ \A t \in LkThreads : lk_th[t].held # {} => CanStep(t)

\* One thread is inside the locked call of create_publisher, after its
\* weak_clone, holding both mutexes, while another thread's call waits for the
\* outer mutex.
C37_Witness ==
  \E t, u \in LkThreads :
    /\ t # u
    /\ lk_th[t].op = "create_publisher"
    /\ lk_th[t].held = {"outer", "inner"}
    /\ Len(lk_prog[t]) = 2
    /\ lk_th[u].pc = "running"
    /\ lk_th[u].op = "Weak::create_topic"
    /\ Head(lk_prog[u]) = "lock_outer"



\* C38: STOP_DISCOVERY and the event loop's stop signal are sent once, at the
\* drop of the last strong DomainParticipant handle.  The step that takes the
\* last handle away starts Drop for DomainParticipant_Disc, and no other step
\* after a successful construction does; the drop of a clone while another
\* handle is left, and the drop of a DomainParticipantWeak, send nothing and
\* leave the discovery and event-loop threads as they are.
C38_ShutdownOnLastHandleDrop ==
  [][/\ (new_result = "Ok" /\ strong = 1 /\ strong' = 0) => drop_pc' = "disc_send"
     /\ (new_result = "Ok" /\ drop_pc # "disc_send" /\ drop_pc' = "disc_send")
          => (strong = 1 /\ strong' = 0)
     /\ (strong' < strong /\ strong' > 0) \/ weak_handles' < weak_handles
          => UNCHANGED <<drop_pc, cmd_chan, stop_signals, disc, ev>>
     /\ Len(SelectSeq(cmd_chan'.msgs, LAMBDA m : m = STOP_DISCOVERY)) <= 1
     /\ stop_signals' <= 1]_vars

====
